---- MODULE Spec2Model ----
(***************************************************************************)
(* GoudEngine Python SDK: the GoudContext wrapper of                        *)
(* sdks/python/goud_engine/bindings.py over the native entity allocator.    *)
(*                                                                          *)
(* The wrapper (class GoudContext) is translated from bindings.py.  The     *)
(* native functions it calls (goud_context_..., goud_entity_...) live in the *)
(* Rust core, which is not part of the source tree at hand; they are        *)
(* modelled from the allocator contract of spec.md section 4.1 / 4.2.       *)
(*                                                                          *)
(* A handle is a 64-bit value split into a 32-bit index and a 32-bit        *)
(* generation; it is modelled as the record [index, gen] of its two halves. *)
(* The all-ones half 0xFFFFFFFF is written AllOnes (-1, its value as a      *)
(* 32-bit two's complement number), so INVALID = 0xFFFFFFFFFFFFFFFF is the  *)
(* record with both halves AllOnes.                                         *)
(***************************************************************************)
EXTENDS Integers, Sequences, FiniteSets, TLC

\* ------------------------------------------------------------------ bounds
\* Size of the index space of the allocator (2^32 - 1 slots in the program).
MaxSlots == 3
\* Largest generation a slot reaches in the model (2^32 - 1 in the program).
MaxGen == 2
\* Largest count passed to spawn_entities.
MaxSpawnBatch == 3
\* Longest list passed to despawn_entities.
MaxDespawnBatch == 2
\* Number of destroy() calls made on the wrapper.
MaxDestroyCalls == 2

\* --------------------------------------------------------------- handles
AllOnes == -1

INVALID == [index |-> AllOnes, gen |-> AllOnes]

\* (c_uint64 * count)(): ctypes zero-initialises the array, so every element
\* the native call does not fill reads back as the handle with all bits 0.
ZeroBits == [index |-> 0, gen |-> 0]

VARIABLES
    slots,              \* native: slot table, slots[i+1] is the slot of index i
    free,               \* native: free list of despawned indices
    valid,              \* native: the context id still names a context
    releases,           \* native: number of times the context was released
    nativeDestroyCalls, \* number of goud_context_destroy calls issued
    destroyed,          \* GoudContext._destroyed
    destroyCalls,       \* number of GoudContext.destroy() calls made
    issued,             \* handles returned by spawn_entity / spawn_entities
    despawned           \* handles whose despawn was reported successful

ctxVars == <<slots, free, valid, releases, nativeDestroyCalls, destroyed,
             destroyCalls, issued, despawned>>

VARIABLES
    game_context_valid, \* GoudGame: _context_id is not the invalid sentinel
    textures,           \* GoudGame._textures: path -> texture handle
    windowOpen,         \* native: the window of the game exists
    windowDestroys,     \* number of goud_window_destroy calls issued
    texReleases,        \* texture handle -> number of goud_texture_destroy calls
    texLoaded           \* texture handles goud_texture_load has returned

gameVars == <<game_context_valid, textures, windowOpen, windowDestroys,
              texReleases, texLoaded>>

VARIABLES
    withPc,             \* "none", or where a `with` statement is: "block", "exited"
    withSubject,        \* the class of the object of the `with` statement
    withExit,           \* how the block was left: normal, return, exception
    propagated          \* the exception of the block reached the caller

withVars == <<withPc, withSubject, withExit, propagated>>

\* Everything but the GoudContext under test.
\* The frame loop of a GoudGame: the raw input level of the window backend
\* (hw), the sampler's two snapshots (curr, prev), GoudGame._delta_time, the
\* renderer between begin and end, the draws submitted in the frame, and the
\* record of what each begin_frame sampled and what the queries then said.
VARIABLES hw, curr, prev, delta_time, rendering, quads, history

frameVars == <<hw, curr, prev, delta_time, rendering, quads, history>>

\* Two boxes given as (x, y, width, height) and the answer of the last
\* check_aabb_overlap on them.
VARIABLES boxA, boxB, overlapping

aabbVars == <<boxA, boxB, overlapping>>

\* A Rect, a point and the answer of the last Rect.contains on them.
VARIABLES rect, point, contained

rectVars == <<rect, point, contained>>

\* A Sprite (the FfiSprite it holds), the FfiSprite of the Sprite returned by
\* the last call, and whether that Sprite is the receiver itself.
VARIABLES sprite, built, builtIsSelf

spriteVars == <<sprite, built, builtIsSelf>>

pureVars == <<aabbVars, rectVars, spriteVars>>

\* A Transform2D (the FfiTransform2D it holds), a second one, the value of the
\* Transform2D returned by the last call, and whether that object is the
\* receiver itself.
VARIABLES transform, other, returned, returnedIsSelf

transformVars == <<transform, other, returned, returnedIsSelf>>

\* The texture handles the host released itself, by calling the native
\* goud_texture_destroy on the context of a GoudGame.
VARIABLES hostReleased

drawVars == <<hostReleased>>

\* A second GoudContext: the native context its _id names, its _destroyed,
\* and the handles its spawn calls returned.
VARIABLES worldB, destroyedB, issuedB

pairVars == <<worldB, destroyedB, issuedB>>

\* The bytes and the encoding a caller of Color.from_hex meant, and the Color
\* it got back.
VARIABLES meant, color

colorVars == <<meant, color>>

\* The host loop of a game: where it stands, and the native window and
\* renderer calls made so far, in order.
VARIABLES loopPc, calls

loopVars == <<loopPc, calls>>

\* The Movement of the Flappy Bird example's bird (velocity and
\* _jump_cooldown_timer), the delta times given to apply_gravity since the
\* last jump, the jumps made and the Bird.update calls made.
VARIABLES velocity, jump_cooldown_timer, sinceJump, jumps, birdUpdates

birdVars == <<velocity, jump_cooldown_timer, sinceJump, jumps, birdUpdates>>

\* The GameManager of the example: its pipe list (each pipe with the serial
\* number of its construction and its x), the ScoreCounter's score, the spawn
\* timer, the pipes constructed so far, how often each of them raised the
\* score, the updates made and whether GoudGame.close() was called.
VARIABLES pipes, score, pipe_spawn_timer, pipesMade, credits, gameUpdates,
          closeRequested

managerVars == <<pipes, score, pipe_spawn_timer, pipesMade, credits,
                 gameUpdates, closeRequested>>

flappyVars == <<birdVars, managerVars>>

lastVars == <<colorVars, loopVars, flappyVars>>

moreVars == <<transformVars, drawVars, pairVars, lastVars>>

laterVars == <<frameVars, pureVars, moreVars>>

restVars == <<gameVars, withVars, laterVars>>

vars == <<ctxVars, restVars>>

\* The native context the wrapper's _id names.
World == [slots |-> slots, free |-> free, valid |-> valid]

\* ------------------------------------------------- native entity allocator
\* id names an existing slot that is live with a matching generation.
Live(w, id) ==
    /\ w.valid
    /\ id.index \in 0..(Len(w.slots) - 1)
    /\ w.slots[id.index + 1].alive
    /\ w.slots[id.index + 1].gen = id.gen

goud_entity_spawn_empty(w) ==
    IF ~w.valid THEN [w |-> w, id |-> INVALID]
    ELSE IF w.free # <<>> THEN
        LET i == w.free[Len(w.free)]
            g == w.slots[i + 1].gen
        IN [w  |-> [w EXCEPT !.slots[i + 1] = [alive |-> TRUE, gen |-> g],
                             !.free = SubSeq(w.free, 1, Len(w.free) - 1)],
            id |-> [index |-> i, gen |-> g]]
    ELSE IF Len(w.slots) < MaxSlots THEN
        [w  |-> [w EXCEPT !.slots = Append(w.slots, [alive |-> TRUE, gen |-> 0])],
         id |-> [index |-> Len(w.slots), gen |-> 0]]
    ELSE [w |-> w, id |-> INVALID]

RECURSIVE SpawnBatchFrom(_, _, _)
SpawnBatchFrom(w, n, out) ==
    IF n = 0 THEN [w |-> w, out |-> out]
    ELSE LET r == goud_entity_spawn_empty(w)
         IN IF r.id = INVALID THEN [w |-> w, out |-> out]
            ELSE SpawnBatchFrom(r.w, n - 1, Append(out, r.id))

\* Fills the first `actual` elements of the caller's array and returns actual.
goud_entity_spawn_batch(w, count) ==
    LET r == SpawnBatchFrom(w, count, <<>>)
    IN [w |-> r.w, actual |-> Len(r.out), filled |-> r.out]

goud_entity_despawn(w, id) ==
    IF Live(w, id)
    THEN [w |-> [w EXCEPT !.slots[id.index + 1] =
                              [alive |-> FALSE, gen |-> id.gen + 1],
                          !.free = Append(w.free, id.index)],
          success |-> TRUE]
    ELSE [w |-> w, success |-> FALSE]

RECURSIVE goud_entity_despawn_batch(_, _)
goud_entity_despawn_batch(w, ids) ==
    IF ids = <<>> THEN [w |-> w, n |-> 0]
    ELSE LET r == goud_entity_despawn(w, Head(ids))
             t == goud_entity_despawn_batch(r.w, Tail(ids))
         IN [w |-> t.w, n |-> t.n + (IF r.success THEN 1 ELSE 0)]

goud_entity_is_alive(w, id) == Live(w, id)

goud_entity_count(w) ==
    IF w.valid
    THEN Cardinality({i \in 1..Len(w.slots) : w.slots[i].alive})
    ELSE 0

goud_context_is_valid(w) == w.valid

\* Releases the context if the id still names one; otherwise a no-op.
goud_context_destroy(w) ==
    IF w.valid
    THEN [w |-> [w EXCEPT !.valid = FALSE], ok |-> TRUE]
    ELSE [w |-> w, ok |-> FALSE]

\* ------------------------------------------------ GoudContext (bindings.py)
\* spawn_entity with the native result read back as a 32-bit value
\* (restype c_uint32): the generation half of the handle is lost.
spawn_entity_c_uint32(w) ==
    LET r == goud_entity_spawn_empty(w)
    IN IF r.id = INVALID
       THEN [w |-> r.w, raised |-> TRUE, ids |-> <<>>]
       ELSE [w |-> r.w, raised |-> FALSE,
             ids |-> <<[index |-> r.id.index, gen |-> 0]>>]

\* spawn_entity without the test against GoudEntityId.INVALID: whatever the
\* native call returned is handed to the caller.
spawn_entity_unchecked(w) ==
    LET r == goud_entity_spawn_empty(w)
    IN [w |-> r.w, raised |-> FALSE, ids |-> <<r.id>>]

spawn_entity(w) ==
    LET r == goud_entity_spawn_empty(w)
    IN IF r.id = INVALID
       THEN [w |-> r.w, raised |-> TRUE, ids |-> <<>>]
       ELSE [w |-> r.w, raised |-> FALSE, ids |-> <<r.id>>]

\* spawn_entities returning the whole array, list(out_array[:count]), instead
\* of the part the native call filled.
spawn_entities_whole_array(w, count) ==
    LET r         == goud_entity_spawn_batch(w, count)
        out_array == [k \in 1..count |->
                         IF k <= r.actual THEN r.filled[k] ELSE ZeroBits]
    IN [w |-> r.w, ids |-> SubSeq(out_array, 1, count)]

spawn_entities(w, count) ==
    LET r         == goud_entity_spawn_batch(w, count)
        out_array == [k \in 1..count |->
                         IF k <= r.actual THEN r.filled[k] ELSE ZeroBits]
    IN [w |-> r.w, ids |-> SubSeq(out_array, 1, r.actual)]

\* despawn_entity returning the GoudResult structure itself, which Python
\* treats as true, instead of its success field.
despawn_entity_truthy(w, entity_id) ==
    LET result == goud_entity_despawn(w, entity_id)
    IN [w |-> result.w, ok |-> TRUE]

despawn_entity(w, entity_id) ==
    LET result == goud_entity_despawn(w, entity_id)
    IN [w |-> result.w, ok |-> result.success]

\* despawn_entities returning the length of the list it was given.
despawn_entities_len(w, entity_ids) ==
    LET r == goud_entity_despawn_batch(w, entity_ids)
    IN [w |-> r.w, n |-> Len(entity_ids)]

despawn_entities(w, entity_ids) ==
    LET r == goud_entity_despawn_batch(w, entity_ids)
    IN [w |-> r.w, n |-> r.n]

\* is_entity_alive passing the handle as a 32-bit value (c_uint32): only the
\* index half reaches the liveness check.
is_entity_alive_c_uint32(w, entity_id) ==
    /\ w.valid
    /\ entity_id.index \in 0..(Len(w.slots) - 1)
    /\ w.slots[entity_id.index + 1].alive

is_entity_alive(w, entity_id) == goud_entity_is_alive(w, entity_id)

\* entity_count returning the size of the slot table, dead slots included.
entity_count_table_size(w) == IF w.valid THEN Len(w.slots) ELSE 0

entity_count(w) == goud_entity_count(w)

\* is_valid with the _destroyed test inverted: a wrapper that was never
\* destroyed reports False without asking the native library.
is_valid_inverted(w, d) == IF ~d THEN FALSE ELSE goud_context_is_valid(w)

is_valid(w, d) == IF d THEN FALSE ELSE goud_context_is_valid(w)

\* destroy without the _destroyed test: every call reaches the native library.
destroy_unguarded(w, d) ==
    [w |-> goud_context_destroy(w).w, calls |-> 1,
     released |-> IF goud_context_destroy(w).ok THEN 1 ELSE 0,
     destroyed |-> TRUE]

\* destroy when it only sets _destroyed and leaves the native context alone.
destroy_flag_only(w, d) ==
    [w |-> w, calls |-> 0, released |-> 0, destroyed |-> TRUE]

\* Returns the native context after the call and the number of native
\* goud_context_destroy calls the call issued.
destroy(w, d) ==
    IF ~d
    THEN [w |-> goud_context_destroy(w).w, calls |-> 1,
          released |-> IF goud_context_destroy(w).ok THEN 1 ELSE 0,
          destroyed |-> TRUE]
    ELSE [w |-> w, calls |-> 0, released |-> 0, destroyed |-> d]

\* ----------------------------------------------------------------- inputs
\* Handles a caller can pass: every index/generation in range, an index the
\* table never reached, a generation no slot reached, and INVALID.
HandleInputs ==
    [index : 0..MaxSlots, gen : 0..(MaxGen + 1)] \cup {INVALID}

\* Handles a caller passes in a list: the handles it holds that are live, the
\* stale handles of the first slot, and INVALID.
ListInputs ==
    {h \in issued : Live(World, h) \/ h.index = 0} \cup {INVALID}

SeqsUpTo(S, n) == UNION {[1..k -> S] : k \in 0..n}

GenBounded(w) == \A i \in 1..Len(w.slots) : w.slots[i].gen <= MaxGen

SetOf(s) == {s[k] : k \in 1..Len(s)}

\* ------------------------------------------------------------------ state
\* GoudContext.create(): a fresh native context wrapped with _destroyed False.
ContextInit ==
    /\ slots = <<>>
    /\ free = <<>>
    /\ valid = TRUE
    /\ releases = 0
    /\ nativeDestroyCalls = 0
    /\ destroyed = FALSE
    /\ destroyCalls = 0
    /\ issued = {}
    /\ despawned = {}

\* No game has been constructed.
GameIdle ==
    /\ game_context_valid = FALSE
    /\ textures = <<>>
    /\ windowOpen = FALSE
    /\ windowDestroys = 0
    /\ texReleases = <<>>
    /\ texLoaded = {}

\* No `with` statement is being executed.
WithIdle ==
    /\ withPc = "none"
    /\ withSubject = "none"
    /\ withExit = "none"
    /\ propagated = FALSE

\* GoudGame.__init__: _delta_time = 0.0; nothing sampled or drawn yet.
FrameInit ==
    /\ hw = {}
    /\ curr = {}
    /\ prev = {}
    /\ delta_time = 0
    /\ rendering = FALSE
    /\ quads = 0
    /\ history = <<>>

AabbIdle ==
    /\ boxA = [x |-> 0, y |-> 0, w |-> 0, h |-> 0]
    /\ boxB = [x |-> 0, y |-> 0, w |-> 0, h |-> 0]
    /\ overlapping = FALSE

RectIdle ==
    /\ rect = [x |-> 0, y |-> 0, width |-> 0, height |-> 0]
    /\ point = [x |-> 0, y |-> 0]
    /\ contained = FALSE

\* native: Sprite(texture_handle) is opaque white, unflipped, anchored at the
\* origin, with neither a source rectangle nor a custom size.
goud_sprite_new(texture_handle) ==
    [texture_handle  |-> texture_handle,
     color           |-> [r |-> 1, g |-> 1, b |-> 1, a |-> 1],
     source_rect     |-> [x |-> 0, y |-> 0, width |-> 0, height |-> 0],
     has_source_rect |-> FALSE,
     flip_x          |-> FALSE,
     flip_y          |-> FALSE,
     anchor          |-> [x |-> 0, y |-> 0],
     custom_size     |-> [x |-> 0, y |-> 0],
     has_custom_size |-> FALSE]

\* s = Sprite(texture_handle=42), held under one name.
SpriteInit ==
    /\ sprite = goud_sprite_new(42)
    /\ built = sprite
    /\ builtIsSelf = TRUE

PureIdle == AabbIdle /\ RectIdle /\ SpriteInit

\* Lengths and scale factors are counted in halves, so that the midpoint of
\* two whole values is a number of the model: One is the program's 1.0.
One == 2

\* Angles are counted in eighths of a turn: Quarter is the program's pi / 2.
Quarter == 2

\* Transform2D(): position (0, 0), rotation 0, scale (1, 1).
Transform2D_default ==
    [position_x |-> 0, position_y |-> 0, rotation |-> 0,
     scale_x |-> One, scale_y |-> One]

TransformIdle ==
    /\ transform = Transform2D_default
    /\ other = Transform2D_default
    /\ returned = Transform2D_default
    /\ returnedIsSelf = TRUE

DrawIdle == hostReleased = {}

PairIdle ==
    /\ worldB = [slots |-> <<>>, free |-> <<>>, valid |-> FALSE]
    /\ destroyedB = TRUE
    /\ issuedB = {}

\* Color.white(), the default tint; components are counted in 255ths.
ColorIdle ==
    /\ meant = [kind |-> "rgb", rr |-> 255, gg |-> 255, bb |-> 255, aa |-> 255]
    /\ color = [r |-> 255, g |-> 255, b |-> 255, a |-> 255]

LoopIdle ==
    /\ loopPc = "done"
    /\ calls = <<>>

\* Movement(GRAVITY, JUMP_STRENGTH): at rest, no cooldown running.
BirdInit ==
    /\ velocity = 0
    /\ jump_cooldown_timer = 0
    /\ sinceJump = 0
    /\ jumps = 0
    /\ birdUpdates = 0

\* GameManager.__init__: no pipes, score 0, spawn timer 0.
ManagerInit ==
    /\ pipes = <<>>
    /\ score = 0
    /\ pipe_spawn_timer = 0
    /\ pipesMade = 0
    /\ credits = <<>>
    /\ gameUpdates = 0
    /\ closeRequested = FALSE

FlappyIdle == BirdInit /\ ManagerInit

LastIdle == ColorIdle /\ LoopIdle /\ FlappyIdle

MoreIdle == TransformIdle /\ DrawIdle /\ PairIdle /\ LastIdle

LaterIdle == FrameInit /\ PureIdle /\ MoreIdle

Init ==
    /\ ContextInit
    /\ GameIdle
    /\ WithIdle
    /\ LaterIdle

SetWorld(w) ==
    /\ slots' = w.slots
    /\ free' = w.free
    /\ valid' = w.valid

SpawnEntity ==
    LET r == spawn_entity(World)
    IN /\ SetWorld(r.w)
       /\ issued' = issued \cup SetOf(r.ids)
       /\ UNCHANGED <<releases, nativeDestroyCalls, destroyed, destroyCalls,
                      despawned, restVars>>

SpawnEntities ==
    \E count \in 0..MaxSpawnBatch :
        LET r == spawn_entities(World, count)
        IN /\ SetWorld(r.w)
           /\ issued' = issued \cup SetOf(r.ids)
           /\ UNCHANGED <<releases, nativeDestroyCalls, destroyed,
                          destroyCalls, despawned, restVars>>

DespawnEntity ==
    \E id \in HandleInputs :
        LET r == despawn_entity(World, id)
        IN /\ GenBounded(r.w)
           /\ SetWorld(r.w)
           /\ despawned' = IF r.ok THEN despawned \cup {id} ELSE despawned
           /\ UNCHANGED <<releases, nativeDestroyCalls, destroyed,
                          destroyCalls, issued, restVars>>

\* The handles of ids whose despawn_entity, applied in list order, returns True.
RECURSIVE Transitioned(_, _)
Transitioned(w, ids) ==
    IF ids = <<>> THEN {}
    ELSE LET r == despawn_entity(w, Head(ids))
         IN (IF r.ok THEN {Head(ids)} ELSE {})
                \cup Transitioned(r.w, Tail(ids))

DespawnEntities ==
    \E ids \in SeqsUpTo(ListInputs, MaxDespawnBatch) :
        LET r == despawn_entities(World, ids)
        IN /\ GenBounded(r.w)
           /\ SetWorld(r.w)
           /\ despawned' = despawned \cup Transitioned(World, ids)
           /\ UNCHANGED <<releases, nativeDestroyCalls, destroyed,
                          destroyCalls, issued, restVars>>

Destroy ==
    /\ destroyCalls < MaxDestroyCalls
    /\ LET r == destroy(World, destroyed)
       IN /\ SetWorld(r.w)
          /\ destroyed' = r.destroyed
          /\ nativeDestroyCalls' = nativeDestroyCalls + r.calls
          /\ releases' = releases + r.released
    /\ destroyCalls' = destroyCalls + 1
    /\ UNCHANGED <<issued, despawned, restVars>>

Next ==
    \/ SpawnEntity
    \/ SpawnEntities
    \/ DespawnEntity
    \/ DespawnEntities
    \/ Destroy

Spec == Init /\ [][Next]_vars

\* ----------------------------------------------------------------- claims
\* The handles returned by a spawn and not yet successfully despawned.
Held == issued \ despawned

\* The indices of the slots that are dead (despawned and not yet reused).
DeadSlots(w) == {i \in 0..(Len(w.slots) - 1) : ~w.slots[i + 1].alive}

\* C1: while the context exists, entity_count() equals the number of handles
\* returned by a spawn and not yet successfully despawned, which are exactly
\* the live slots; dead and never-allocated slots are not counted.
C1_EntityCountIsLive ==
    ~destroyed =>
        /\ entity_count(World) = Cardinality(Held)
        /\ \A h \in issued : is_entity_alive(World, h) <=> h \in Held
        /\ entity_count(World) = Len(slots) - Cardinality(DeadSlots(World))

C1_Witness ==
    /\ ~destroyed
    /\ entity_count(World) = 2
    /\ Len(slots) = 3
    /\ despawned # {}

\* C2: a newly spawned handle differs from every handle a spawn returned
\* before, live or despawned: in every state the handles the next spawn_entity
\* or spawn_entities call returns are new and pairwise distinct.
C2_SpawnedHandlesUnique ==
    /\ \A k \in 1..Len(spawn_entity(World).ids) :
           spawn_entity(World).ids[k] \notin issued
    /\ \A n \in 0..MaxSpawnBatch :
           LET ids == spawn_entities(World, n).ids
           IN /\ \A k \in 1..Len(ids) : ids[k] \notin issued
              /\ \A j, k \in 1..Len(ids) : j # k => ids[j] # ids[k]

C2_Witness ==
    /\ free # <<>>
    /\ \E h \in despawned : spawn_entity(World).ids = <<[h EXCEPT !.gen = h.gen + 1]>>
    /\ Held # {}

\* C3: once despawn(h) has succeeded, is_alive(h) is false in every state,
\* also after a later spawn has reused the slot of h.
C3_StaleNeverAlive ==
    \A h \in despawned : ~is_entity_alive(World, h)

C3_Witness ==
    \E h \in despawned :
        \E h2 \in Held : h2.index = h.index /\ is_entity_alive(World, h2)

\* C4: despawn(id) returns true, marking the slot dead, iff id names an
\* existing slot that is live with a matching generation; for an unknown
\* index, a stale generation, an already-despawned handle or INVALID it
\* returns false and leaves the context as it was, so a second despawn of the
\* same handle fails and changes nothing.
C4_DespawnIffLive ==
    \A id \in HandleInputs :
        LET r     == despawn_entity(World, id)
            names == /\ valid
                     /\ id # INVALID
                     /\ id.index >= 0 /\ id.index < Len(slots)
                     /\ slots[id.index + 1].alive
                     /\ slots[id.index + 1].gen = id.gen
        IN /\ r.ok <=> names
           /\ r.ok => /\ ~r.w.slots[id.index + 1].alive
                      /\ entity_count(r.w) = entity_count(World) - 1
                      /\ ~despawn_entity(r.w, id).ok
                      /\ despawn_entity(r.w, id).w = r.w
           /\ ~r.ok => r.w = World
           /\ (id = INVALID \/ id \in despawned \/ id.index >= Len(slots))
                  => ~r.ok

C4_Witness ==
    /\ ~destroyed
    /\ \E h \in despawned : ~despawn_entity(World, h).ok
    /\ \E h \in Held : despawn_entity(World, h).ok
    /\ ~despawn_entity(World, INVALID).ok

\* No slot disappears and no slot's generation decreases in a step.
GenerationsMonotone ==
    \A i \in 1..Len(slots) :
        i <= Len(slots') /\ slots'[i].gen >= slots[i].gen

\* C5: the generation of a slot never decreases, and a spawn that returns an
\* index an earlier spawn returned returns a strictly greater generation.
C5_GenerationsIncrease ==
    /\ [][GenerationsMonotone]_vars
    /\ [](\A k \in 1..Len(spawn_entity(World).ids) :
              \A h \in issued :
                  LET new == spawn_entity(World).ids[k]
                  IN new.index = h.index => new.gen > h.gen)

C5_Witness ==
    \E h \in Held :
        /\ h.gen = 2
        /\ [h EXCEPT !.gen = 0] \in despawned
        /\ [h EXCEPT !.gen = 1] \in despawned

\* C6: spawn returns the index of a despawned slot whenever one exists and
\* leaves the table size alone; only when none exists does it grow the table
\* by exactly one slot, whose handle has generation 0. The returned handle is
\* alive right after the call and entity_count has grown by exactly 1. Spawn
\* fails (raises) only when the index space is exhausted, and then changes
\* nothing.
C6_SpawnReusesOrGrows ==
    valid =>
        LET r == spawn_entity(World)
        IN /\ DeadSlots(World) # {} =>
                  /\ ~r.raised
                  /\ r.ids[1].index \in DeadSlots(World)
                  /\ Len(r.w.slots) = Len(slots)
           /\ (DeadSlots(World) = {} /\ Len(slots) < MaxSlots) =>
                  /\ ~r.raised
                  /\ r.ids[1] = [index |-> Len(slots), gen |-> 0]
                  /\ Len(r.w.slots) = Len(slots) + 1
                  /\ SubSeq(r.w.slots, 1, Len(slots)) = slots
           /\ ~r.raised =>
                  /\ Len(r.ids) = 1
                  /\ is_entity_alive(r.w, r.ids[1])
                  /\ entity_count(r.w) = entity_count(World) + 1
           /\ r.raised =>
                  /\ r.w = World
                  /\ DeadSlots(World) = {}
                  /\ Len(slots) = MaxSlots

C6_Witness ==
    /\ valid
    /\ Len(slots) = 2
    /\ Cardinality(DeadSlots(World)) = 1
    /\ \E h \in Held : h.gen = 1 /\ is_entity_alive(World, h)

\* C7: after spawning N entities and despawning all of them, in any order,
\* entity_count() is 0 and is_alive is false for each of the N handles.
C7_AllDespawned ==
    (~destroyed /\ issued # {} /\ issued \subseteq despawned) =>
        /\ entity_count(World) = 0
        /\ \A h \in issued : ~is_entity_alive(World, h)

C7_Witness ==
    /\ ~destroyed
    /\ issued = {[index |-> i, gen |-> 0] : i \in 0..2}
    /\ issued \subseteq despawned
    /\ free = <<1, 2, 0>>

\* n spawn_entity calls made one after the other; a call that raises returns
\* no handle.
RECURSIVE SequentialSpawns(_, _)
SequentialSpawns(w, n) ==
    IF n = 0 THEN [w |-> w, ids |-> <<>>]
    ELSE LET r    == spawn_entity(w)
             rest == SequentialSpawns(r.w, n - 1)
         IN [w |-> rest.w, ids |-> r.ids \o rest.ids]

\* The number of spawns a context can still serve.
Capacity(w) == Cardinality(DeadSlots(w)) + (MaxSlots - Len(w.slots))

\* C8: spawn_entities(n) returns the handles n sequential spawn_entity calls
\* from the same state return, in the same order, and leaves the context in
\* the same state; without exhaustion it returns exactly n handles, all alive,
\* and entity_count grows by n.
C8_BatchSpawnIsSequential ==
    \A n \in 0..MaxSpawnBatch :
        LET b == spawn_entities(World, n)
            s == SequentialSpawns(World, n)
        IN /\ b.ids = s.ids
           /\ b.w = s.w
           /\ (valid /\ n <= Capacity(World)) =>
                  /\ Len(b.ids) = n
                  /\ \A k \in 1..n : is_entity_alive(b.w, b.ids[k])
                  /\ entity_count(b.w) = entity_count(World) + n

C8_Witness ==
    /\ valid
    /\ Len(slots) = 2
    /\ Len(free) = 2
    /\ Len(spawn_entities(World, 3).ids) = 3
    /\ spawn_entities(World, 3).ids[3] = [index |-> 2, gen |-> 0]

\* despawn_entity applied to each element of ids in order: the context after
\* the last call and the number of calls that returned True.
RECURSIVE SequentialDespawns(_, _)
SequentialDespawns(w, ids) ==
    IF ids = <<>> THEN [w |-> w, n |-> 0]
    ELSE LET r    == despawn_entity(w, Head(ids))
             rest == SequentialDespawns(r.w, Tail(ids))
         IN [w |-> rest.w, n |-> rest.n + (IF r.ok THEN 1 ELSE 0)]

\* C9: despawn_entities(ids) returns the number of handles that went from
\* live to dead during the call, which is the number of True results of
\* despawn applied to each element in order; a handle listed twice, an
\* already-dead handle or INVALID is not counted twice or at all, and
\* entity_count decreases by exactly the returned count.
C9_BatchDespawnCount ==
    \A ids \in SeqsUpTo(ListInputs, MaxDespawnBatch) :
        LET r == despawn_entities(World, ids)
            s == SequentialDespawns(World, ids)
        IN /\ r.n = Cardinality({h \in SetOf(ids) :
                        is_entity_alive(World, h) /\ ~is_entity_alive(r.w, h)})
           /\ r.n = s.n
           /\ r.w = s.w
           /\ r.n <= Cardinality(SetOf(ids) \ ({INVALID} \cup despawned))
           /\ entity_count(World) - entity_count(r.w) = r.n

C9_Witness ==
    /\ \E h \in Held : /\ despawn_entities(World, <<h, h>>).n = 1
                       /\ despawn_entities(World, <<INVALID, h>>).n = 1
    /\ \E h \in despawned : \E g \in Held :
           despawn_entities(World, <<h, g>>).n = 1
    /\ \E h, g \in Held : despawn_entities(World, <<h, g>>).n = 2

\* C10: however many times destroy() is called, the native context is
\* released exactly once: the first destroy issues the one native release, and
\* every later destroy issues no native call and changes nothing.
C10_ReleasedOnce ==
    /\ destroyCalls = 0 => (releases = 0 /\ nativeDestroyCalls = 0)
    /\ destroyCalls >= 1 => (releases = 1 /\ nativeDestroyCalls = 1)
    /\ destroyed =>
           LET r == destroy(World, destroyed)
           IN r.w = World /\ r.calls = 0 /\ r.released = 0 /\ r.destroyed

C10_Witness ==
    /\ destroyCalls >= 2
    /\ releases = 1
    /\ nativeDestroyCalls = 1
    /\ destroyed

\* C11: is_valid() is true for a freshly created context and false in every
\* state after destroy() has been called, whatever is invoked on the wrapper
\* afterwards; once false it never becomes true again.
C11_InvalidAfterDestroy ==
    /\ [](destroyCalls = 0 => is_valid(World, destroyed))
    /\ [](destroyCalls >= 1 => ~is_valid(World, destroyed))
    /\ [][~is_valid(World, destroyed) => ~is_valid(World', destroyed')]_vars

C11_Witness ==
    /\ destroyCalls = 2
    /\ issued # {}
    /\ ~is_valid(World, destroyed)
    /\ spawn_entity(World).raised

\* ======================================================================
\* GoudGame lifecycle (bindings.py 941-1045) and the `with` statement
\* (GoudContext.__exit__ 774-778, GoudGame.__exit__ 1189-1193).
\* ======================================================================
\* Texture files a game asks for.
PathInputs == {"bird.png", "pipe.png", "base.png"}

\* How a `with` block is left.
ExitKinds == {"normal", "return", "exception"}

\* The game object and the native window and textures behind it.
Game == [context_valid  |-> game_context_valid,
         textures       |-> textures,
         windowOpen     |-> windowOpen,
         windowDestroys |-> windowDestroys,
         texReleases    |-> texReleases,
         texLoaded      |-> texLoaded]

\* native: a load with okay = FALSE (missing file) or on a context that no
\* longer exists returns the INVALID handle; otherwise a handle never returned
\* before.
goud_texture_load(g, okay) ==
    IF g.windowOpen /\ okay
    THEN LET h == Cardinality(g.texLoaded) + 1
         IN [g |-> [g EXCEPT !.texLoaded = g.texLoaded \cup {h},
                             !.texReleases =
                                 [x \in g.texLoaded \cup {h} |->
                                     IF x = h THEN 0 ELSE g.texReleases[x]]],
             handle |-> h]
    ELSE [g |-> g, handle |-> AllOnes]

\* native: records the release of the textures in handles.
goud_texture_destroy_all(g, handles) ==
    [g EXCEPT !.texReleases =
        [x \in DOMAIN g.texReleases |->
            g.texReleases[x] + Cardinality({p \in DOMAIN handles : handles[p] = x})]]

goud_window_destroy(g) ==
    [g EXCEPT !.windowOpen = FALSE, !.windowDestroys = g.windowDestroys + 1]

\* load_texture without the look into _textures: every call loads.
load_texture_uncached(g, path, okay) ==
    LET r == goud_texture_load(g, okay)
    IN IF r.handle = AllOnes
       THEN [g |-> r.g, raised |-> TRUE, handle |-> AllOnes]
       ELSE [g |-> [r.g EXCEPT !.textures =
                       [q \in DOMAIN g.textures \cup {path} |->
                           IF q = path THEN r.handle ELSE g.textures[q]]],
             raised |-> FALSE, handle |-> r.handle]

load_texture(g, path, okay) ==
    IF path \in DOMAIN g.textures
    THEN [g |-> g, raised |-> FALSE, handle |-> g.textures[path]]
    ELSE LET r == goud_texture_load(g, okay)
         IN IF r.handle = AllOnes
            THEN [g |-> r.g, raised |-> TRUE, handle |-> AllOnes]
            ELSE [g |-> [r.g EXCEPT !.textures =
                            [q \in DOMAIN g.textures \cup {path} |->
                                IF q = path THEN r.handle ELSE g.textures[q]]],
                  raised |-> FALSE, handle |-> r.handle]

\* destroy when it does not look at the context id first.
game_destroy_unguarded(g) ==
    LET released == goud_texture_destroy_all(g, g.textures)
        closed   == goud_window_destroy(released)
    IN [closed EXCEPT !.textures = <<>>, !.context_valid = FALSE]

game_destroy(g) ==
    IF g.context_valid
    THEN LET released == goud_texture_destroy_all(g, g.textures)
             closed   == goud_window_destroy(released)
         IN [closed EXCEPT !.textures = <<>>, !.context_valid = FALSE]
    ELSE g

\* GoudGame.is_valid().
GoudGame_is_valid(g) == g.context_valid

\* GoudGame.is_running(); should_close is what goud_window_should_close
\* answers for the window.
is_running(g, should_close) ==
    IF ~g.context_valid THEN FALSE ELSE ~should_close

\* __exit__ when it destroys only after a block that ended without exception.
GoudContext_exit_unless_exception(w, d, exc) ==
    IF exc = "exception"
    THEN [w |-> w, calls |-> 0, released |-> 0, destroyed |-> d,
          suppress |-> FALSE]
    ELSE [w |-> destroy(w, d).w, calls |-> destroy(w, d).calls,
          released |-> destroy(w, d).released,
          destroyed |-> destroy(w, d).destroyed, suppress |-> FALSE]

\* GoudContext.__exit__(exc_type, exc_val, exc_tb): destroys and returns None,
\* which does not suppress the exception of the block.
GoudContext_exit(w, d, exc) ==
    [w |-> destroy(w, d).w, calls |-> destroy(w, d).calls,
     released |-> destroy(w, d).released,
     destroyed |-> destroy(w, d).destroyed, suppress |-> FALSE]

\* GoudGame.__exit__(exc_type, exc_val, exc_tb).
GoudGame_exit(g, exc) == [g |-> game_destroy(g), suppress |-> FALSE]

SetGame(g) ==
    /\ game_context_valid' = g.context_valid
    /\ textures' = g.textures
    /\ windowOpen' = g.windowOpen
    /\ windowDestroys' = g.windowDestroys
    /\ texReleases' = g.texReleases
    /\ texLoaded' = g.texLoaded

\* GoudGame(width, height, title) with the window created.
GameInit ==
    /\ game_context_valid = TRUE
    /\ textures = <<>>
    /\ windowOpen = TRUE
    /\ windowDestroys = 0
    /\ texReleases = <<>>
    /\ texLoaded = {}

\* `with GoudContext.create() as ctx:` or `with GoudGame(...) as game:`, the
\* block just entered.
InitWith ==
    /\ ContextInit
    /\ withPc = "block"
    /\ withExit = "none"
    /\ propagated = FALSE
    /\ LaterIdle
    /\ \/ withSubject = "GoudContext" /\ GameIdle
       \/ withSubject = "GoudGame" /\ GameInit

BlockSpawnEntity ==
    /\ withPc = "block" /\ withSubject = "GoudContext"
    /\ SpawnEntity

BlockSpawnEntities ==
    /\ withPc = "block" /\ withSubject = "GoudContext"
    /\ SpawnEntities

BlockDespawnEntity ==
    /\ withPc = "block" /\ withSubject = "GoudContext"
    /\ DespawnEntity

BlockDestroy ==
    /\ withPc = "block" /\ withSubject = "GoudContext"
    /\ Destroy

BlockLoadTexture ==
    /\ withPc = "block" /\ withSubject = "GoudGame"
    /\ \E path \in PathInputs, okay \in BOOLEAN :
           SetGame(load_texture(Game, path, okay).g)
    /\ UNCHANGED <<ctxVars, withVars, laterVars>>

BlockGameDestroy ==
    /\ withPc = "block" /\ withSubject = "GoudGame"
    /\ SetGame(game_destroy(Game))
    /\ UNCHANGED <<ctxVars, withVars, laterVars>>

ExitContext ==
    /\ withPc = "block" /\ withSubject = "GoudContext"
    /\ \E kind \in ExitKinds :
           LET r == GoudContext_exit(World, destroyed, kind)
           IN /\ SetWorld(r.w)
              /\ destroyed' = r.destroyed
              /\ nativeDestroyCalls' = nativeDestroyCalls + r.calls
              /\ releases' = releases + r.released
              /\ destroyCalls' = destroyCalls + 1
              /\ withExit' = kind
              /\ propagated' = (kind = "exception" /\ ~r.suppress)
    /\ withPc' = "exited"
    /\ UNCHANGED <<issued, despawned, gameVars, withSubject, laterVars>>

ExitGame ==
    /\ withPc = "block" /\ withSubject = "GoudGame"
    /\ \E kind \in ExitKinds :
           LET r == GoudGame_exit(Game, kind)
           IN /\ SetGame(r.g)
              /\ withExit' = kind
              /\ propagated' = (kind = "exception" /\ ~r.suppress)
    /\ withPc' = "exited"
    /\ UNCHANGED <<ctxVars, withSubject, laterVars>>

NextWith ==
    \/ BlockSpawnEntity
    \/ BlockSpawnEntities
    \/ BlockDespawnEntity
    \/ BlockDestroy
    \/ BlockLoadTexture
    \/ BlockGameDestroy
    \/ ExitContext
    \/ ExitGame

SpecWith == InitWith /\ [][NextWith]_vars

\* C12: an object used as a `with` block is destroyed when the block exits,
\* however it exits (normal completion, return, exception); its native
\* resources are released exactly once even if the block already called
\* destroy(), and an exception raised in the block reaches the caller.
C12_WithBlockReleasesOnce ==
    withPc = "exited" =>
        /\ withSubject = "GoudContext" =>
               /\ destroyed /\ ~valid
               /\ ~is_valid(World, destroyed)
               /\ releases = 1 /\ nativeDestroyCalls = 1
        /\ withSubject = "GoudGame" =>
               /\ ~game_context_valid /\ ~windowOpen
               /\ windowDestroys = 1
               /\ textures = <<>>
               /\ \A h \in texLoaded : texReleases[h] = 1
        /\ propagated <=> withExit = "exception"

C12_Witness ==
    /\ withPc = "exited"
    /\ withSubject = "GoudContext"
    /\ withExit = "exception"
    /\ propagated
    /\ destroyCalls = 2
    /\ releases = 1
    /\ issued # {}

\* ======================================================================
\* Frame loop and input sampler of GoudGame (bindings.py 992-1015,
\* 1051-1069; flappy_bird.py 430-446, 654-663).
\* ======================================================================
MaxFrames == 4

MaxQuads == 1

Keys_SPACE == 32

MouseButtons_LEFT == 0

\* Frame times the window backend reports, in milliseconds.
DeltaInputs == {16, 33}

Key(k) == [kind |-> "key", code |-> k]

MouseButton(b) == [kind |-> "mouse", code |-> b]

Channels == {Key(Keys_SPACE), MouseButton(MouseButtons_LEFT)}

Sampler == [hw |-> hw, curr |-> curr, prev |-> prev]

\* native: the frame boundary. The snapshot of the frame before becomes the
\* previous one and the raw level of the backend becomes the current one.
goud_window_poll_events(s, dt) ==
    [s |-> [s EXCEPT !.prev = s.curr, !.curr = s.hw], delta |-> dt]

\* native: level and edge reads; they change nothing.
goud_input_pressed(s, c) == c \in s.curr

goud_input_just_pressed(s, c) == c \in s.curr /\ c \notin s.prev

goud_input_just_released(s, c) == c \notin s.curr /\ c \in s.prev

key_pressed(s, k) == [s |-> s, value |-> goud_input_pressed(s, Key(k))]

\* key_just_pressed when reading the edge also clears it.
key_just_pressed_consuming(s, k) ==
    [s |-> [s EXCEPT !.prev = s.curr],
     value |-> goud_input_just_pressed(s, Key(k))]

key_just_pressed(s, k) ==
    [s |-> s, value |-> goud_input_just_pressed(s, Key(k))]

\* key_just_released when it asks the native library for the press edge.
key_just_released_press_edge(s, k) ==
    [s |-> s, value |-> goud_input_just_pressed(s, Key(k))]

\* key_just_released when it asks the native library whether the key is down.
key_just_released_asks_level(s, k) ==
    [s |-> s, value |-> goud_input_pressed(s, Key(k))]

key_just_released(s, k) ==
    [s |-> s, value |-> goud_input_just_released(s, Key(k))]

mouse_button_pressed(s, b) ==
    [s |-> s, value |-> goud_input_pressed(s, MouseButton(b))]

mouse_button_just_pressed(s, b) ==
    [s |-> s, value |-> goud_input_just_pressed(s, MouseButton(b))]

\* begin_frame when it polls the backend twice.
begin_frame_polling_twice(s, dt) ==
    [s |-> goud_window_poll_events(goud_window_poll_events(s, dt).s, dt).s,
     delta_time |-> dt, quads |-> 0, rendering |-> TRUE]

\* begin_frame: poll (stores the delta time), clear the window, begin the
\* renderer.
begin_frame(s, dt) ==
    [s |-> goud_window_poll_events(s, dt).s,
     delta_time |-> goud_window_poll_events(s, dt).delta,
     quads |-> 0, rendering |-> TRUE]

\* What the three queries say about a channel. GoudGame has no
\* mouse_button_just_released; the native function declared for it is asked.
Answer(s, c) ==
    IF c.kind = "key"
    THEN [pressed       |-> key_pressed(s, c.code).value,
          just_pressed  |-> key_just_pressed(s, c.code).value,
          just_released |-> key_just_released(s, c.code).value]
    ELSE [pressed       |-> mouse_button_pressed(s, c.code).value,
          just_pressed  |-> mouse_button_just_pressed(s, c.code).value,
          just_released |-> goud_input_just_released(s, c)]

Answers(s) == [c \in Channels |-> Answer(s, c)]

\* What the renderer of the game's context holds: the number of draws
\* submitted in the frame, and the textures the host released itself.
Renderer == [quads |-> quads, released |-> hostReleased]

\* The handles draw_sprite is called with: every handle load_texture can
\* return, and the INVALID texture handle.
TextureInputs == (1..Cardinality(PathInputs)) \cup {AllOnes}

\* native: the texture was loaded on the context and not released since.
TextureLive(g, r, h) ==
    /\ h \in g.texLoaded
    /\ g.texReleases[h] = 0
    /\ h \notin r.released

\* native: one draw is submitted if the context id is that of a live context
\* and the texture is live; otherwise nothing is submitted and the call
\* returns false.
goud_renderer_draw_sprite(g, id_valid, r, texture) ==
    IF id_valid /\ g.windowOpen /\ TextureLive(g, r, texture)
    THEN [r |-> [r EXCEPT !.quads = r.quads + 1], ok |-> TRUE]
    ELSE [r |-> r, ok |-> FALSE]

goud_renderer_draw_quad(g, id_valid, r) ==
    IF id_valid /\ g.windowOpen
    THEN [r |-> [r EXCEPT !.quads = r.quads + 1], ok |-> TRUE]
    ELSE [r |-> r, ok |-> FALSE]

\* native: releases a live texture; releasing any other handle is a no-op
\* that returns false.
goud_texture_destroy(g, id_valid, r, h) ==
    IF id_valid /\ g.windowOpen /\ TextureLive(g, r, h)
    THEN [r |-> [r EXCEPT !.released = r.released \cup {h}], ok |-> TRUE]
    ELSE [r |-> r, ok |-> FALSE]

\* draw_sprite when it reports success whatever the native call returned.
draw_sprite_reports_success(g, r, texture) ==
    [r |-> goud_renderer_draw_sprite(g, g.context_valid, r, texture).r,
     ok |-> TRUE]

\* draw_sprite when it submits an untextured quad of the same rectangle.
draw_sprite_untextured(g, r, texture) ==
    goud_renderer_draw_quad(g, g.context_valid, r)

\* GoudGame.draw_sprite(texture, x, y, width, height, rotation, color): the
\* context id of the game (INVALID once destroyed) and the handle go to the
\* native call, whose result is returned.
draw_sprite(g, r, texture) ==
    goud_renderer_draw_sprite(g, g.context_valid, r, texture)

\* GoudGame.draw_quad(x, y, width, height, color).
draw_quad(g, r) == goud_renderer_draw_quad(g, g.context_valid, r)

InitFrame ==
    /\ ContextInit
    /\ GameInit
    /\ WithIdle
    /\ FrameInit
    /\ PureIdle
    /\ MoreIdle

BeginFrame ==
    /\ Len(history) < MaxFrames
    /\ \E dt \in DeltaInputs :
           LET r == begin_frame(Sampler, dt)
           IN /\ curr' = r.s.curr
              /\ prev' = r.s.prev
              /\ delta_time' = r.delta_time
              /\ quads' = r.quads
              /\ rendering' = r.rendering
              /\ history' = Append(history,
                                   [down |-> hw, answers |-> Answers(r.s)])
    /\ UNCHANGED <<hw, ctxVars, gameVars, withVars, pureVars, moreVars>>

EndFrame ==
    /\ rendering
    /\ rendering' = FALSE
    /\ UNCHANGED <<hw, curr, prev, delta_time, quads, history,
                   ctxVars, gameVars, withVars, pureVars, moreVars>>

DrawQuad ==
    /\ quads < MaxQuads
    /\ quads' = draw_quad(Game, Renderer).r.quads
    /\ UNCHANGED <<hw, curr, prev, delta_time, rendering, history,
                   ctxVars, gameVars, withVars, pureVars, moreVars>>

\* The user presses or releases a key or a button.
InputEvent ==
    /\ \E c \in Channels :
           hw' = IF c \in hw THEN hw \ {c} ELSE hw \cup {c}
    /\ UNCHANGED <<curr, prev, delta_time, rendering, quads, history,
                   ctxVars, gameVars, withVars, pureVars, moreVars>>

\* GoudGame.spawn on the context of the game.
GameSpawn == SpawnEntity

NextFrame ==
    \/ BeginFrame
    \/ EndFrame
    \/ DrawQuad
    \/ InputEvent
    \/ GameSpawn

SpecFrame == InitFrame /\ [][NextFrame]_vars

\* Frames begun so far, and what the backend held down when frame f began
\* (nothing before the first frame).
Frames == Len(history)

DownAt(f) == IF f = 0 THEN {} ELSE history[f].down

\* C13: after every begin_frame and for every key or mouse button k,
\* pressed(k) is true iff k is down in the current snapshot, just_pressed(k)
\* iff k is down in the current snapshot and was up in the snapshot of the
\* frame before, just_released(k) iff k is up in the current snapshot and was
\* down in the snapshot of the frame before.
C13_EdgesFromSnapshots ==
    Frames >= 1 =>
        \A c \in Channels :
            /\ Answer(Sampler, c).pressed <=> c \in DownAt(Frames)
            /\ Answer(Sampler, c).just_pressed <=>
                   (c \in DownAt(Frames) /\ c \notin DownAt(Frames - 1))
            /\ Answer(Sampler, c).just_released <=>
                   (c \notin DownAt(Frames) /\ c \in DownAt(Frames - 1))

C13_Witness ==
    /\ Frames >= 2
    /\ key_just_released(Sampler, Keys_SPACE).value
    /\ mouse_button_just_pressed(Sampler, MouseButtons_LEFT).value
    /\ Key(Keys_SPACE) \in hw
    /\ ~rendering

\* The three key queries by name, and a query asked after another one.
QueryNames == {"pressed", "just_pressed", "just_released"}

Ask(q, s, k) ==
    CASE q = "pressed"       -> key_pressed(s, k)
      [] q = "just_pressed"  -> key_just_pressed(s, k)
      [] q = "just_released" -> key_just_released(s, k)

\* C14: between two consecutive begin_frame calls every pressed, just_pressed
\* and just_released query for the same key returns the same answer however
\* often and in whatever order the queries are made (reading an edge does not
\* consume it), and no step other than begin_frame (entity operations, draw
\* calls, end_frame, input arriving at the backend) changes these answers or
\* delta_time.
C14_AnswersStableWithinFrame ==
    /\ [](\A q1 \in QueryNames, q2 \in QueryNames :
            LET first  == Ask(q1, Sampler, Keys_SPACE)
                second == Ask(q2, first.s, Keys_SPACE)
                third  == Ask(q1, second.s, Keys_SPACE)
            IN /\ second.value = Ask(q2, Sampler, Keys_SPACE).value
               /\ third.value = first.value
               /\ Answers(third.s) = Answers(Sampler))
    /\ [][history' = history =>
            /\ Answers([hw |-> hw', curr |-> curr', prev |-> prev'])
                   = Answers(Sampler)
            /\ delta_time' = delta_time]_vars

C14_Witness ==
    /\ Frames >= 1
    /\ key_just_pressed(Sampler, Keys_SPACE).value
    /\ Key(Keys_SPACE) \notin hw
    /\ quads > 0
    /\ ~rendering
    /\ Len(slots) > 0
    /\ delta_time = 33

\* The space key across the frames begun so far: whether it was down when
\* frame f began, what the queries said in frame f, and the maximal runs of
\* consecutive frames in which it was down.
SpaceDown(f) == Key(Keys_SPACE) \in DownAt(f)

SpaceSaid(f) == history[f].answers[Key(Keys_SPACE)]

MaximalRun(i, j) ==
    /\ \A f \in i..j : SpaceDown(f)
    /\ ~SpaceDown(i - 1)
    /\ j < Frames => ~SpaceDown(j + 1)

\* C15: for any press/release history of a key sampled at begin_frame,
\* just_pressed is true in exactly the first frame of each maximal run of
\* consecutive frames in which the key is down, pressed is true in every frame
\* of the run, and just_released is true in exactly the first frame after the
\* run ends.
C15_EdgesOncePerRun ==
    /\ \A i \in 1..Frames, j \in 1..Frames :
           (i <= j /\ MaximalRun(i, j)) =>
               /\ \A f \in i..j :
                      /\ SpaceSaid(f).pressed
                      /\ SpaceSaid(f).just_pressed <=> f = i
                      /\ ~SpaceSaid(f).just_released
               /\ j < Frames => SpaceSaid(j + 1).just_released
    /\ \A f \in 1..Frames :
           ~SpaceDown(f) =>
               /\ ~SpaceSaid(f).pressed
               /\ ~SpaceSaid(f).just_pressed
               /\ SpaceSaid(f).just_released <=> SpaceDown(f - 1)

\* A key down for three frames and released before the fourth.
C15_Witness ==
    /\ Frames = 4
    /\ MaximalRun(1, 3)
    /\ SpaceSaid(1).just_pressed
    /\ ~SpaceSaid(2).just_pressed /\ ~SpaceSaid(3).just_pressed
    /\ SpaceSaid(3).pressed
    /\ SpaceSaid(4).just_released
    /\ ~SpaceSaid(3).just_released

\* ======================================================================
\* Collision query (bindings.py 1082-1088; flappy_bird.py 493-501).
\* ======================================================================
MaxCoord == 3

MaxSize == 2

\* native: two boxes given by their corners overlap when each reaches
\* strictly past the near side of the other on both axes.
goud_collision_aabb_overlap(ax1, ay1, ax2, ay2, bx1, by1, bx2, by2) ==
    ax1 < bx2 /\ ax2 > bx1 /\ ay1 < by2 /\ ay2 > by1

\* check_aabb_overlap when it hands the sizes over as if they were corners.
check_aabb_overlap_sizes(ax, ay, aw, ah, bx, by, bw, bh) ==
    goud_collision_aabb_overlap(ax, ay, aw, ah, bx, by, bw, bh)

check_aabb_overlap(ax, ay, aw, ah, bx, by, bw, bh) ==
    goud_collision_aabb_overlap(ax, ay, ax + aw, ay + ah,
                                bx, by, bx + bw, by + bh)

\* GameManager._check_collision of the example, on (x, y, w, h) tuples.
check_collision(a, b) ==
    a.x < b.x + b.w /\ a.x + a.w > b.x /\ a.y < b.y + b.h /\ a.y + a.h > b.y

Overlap(a, b) == check_aabb_overlap(a.x, a.y, a.w, a.h, b.x, b.y, b.w, b.h)

BoxAInputs == [x : {0}, y : {0}, w : 0..MaxSize, h : 0..MaxSize]

\* Box B starts away from A and is moved from there.
BoxBInputs ==
    [x : {MaxCoord}, y : {MaxCoord}, w : 0..MaxSize, h : 0..MaxSize]

InitAabb ==
    /\ ContextInit
    /\ GameInit
    /\ WithIdle
    /\ FrameInit
    /\ RectIdle
    /\ SpriteInit
    /\ MoreIdle
    /\ boxA \in BoxAInputs
    /\ boxB \in BoxBInputs
    /\ overlapping = Overlap(boxA, boxB)

\* Box B moves by one unit and the game asks again.
ShiftB ==
    /\ \E d \in {[x |-> 1, y |-> 0], [x |-> -1, y |-> 0],
                 [x |-> 0, y |-> 1], [x |-> 0, y |-> -1]} :
           /\ boxB.x + d.x \in (-1)..MaxCoord
           /\ boxB.y + d.y \in (-1)..MaxCoord
           /\ boxB' = [boxB EXCEPT !.x = boxB.x + d.x, !.y = boxB.y + d.y]
    /\ overlapping' = Overlap(boxA, boxB')
    /\ UNCHANGED <<boxA, ctxVars, gameVars, withVars, frameVars, rectVars,
                   spriteVars, moreVars>>

NextAabb == ShiftB

SpecAabb == InitAabb /\ [][NextAabb]_vars

\* C16: check_aabb_overlap is true iff ax1 < bx2, ax2 > bx1, ay1 < by2 and
\* ay2 > by1 hold for the corners (x, y, x + w, y + h) of the two boxes, all
\* strict: boxes that only share an edge or a corner do not overlap, and
\* moving one of two edge-sharing boxes one unit toward the other makes them
\* overlap. The example's own _check_collision agrees.
C16_StrictOverlap ==
    /\ [](/\ overlapping <=>
                (/\ boxA.x < boxB.x + boxB.w
                 /\ boxA.x + boxA.w > boxB.x
                 /\ boxA.y < boxB.y + boxB.h
                 /\ boxA.y + boxA.h > boxB.y)
          /\ overlapping <=> check_collision(boxA, boxB)
          /\ (boxA.x + boxA.w = boxB.x \/ boxA.y + boxA.h = boxB.y
              \/ boxB.x + boxB.w = boxA.x \/ boxB.y + boxB.h = boxA.y)
                 => ~overlapping)
    /\ [][(/\ boxA.x + boxA.w = boxB.x
           /\ boxB'.x = boxB.x - 1
           /\ boxA.w > 0 /\ boxB.w > 0
           /\ boxA.y < boxB.y + boxB.h
           /\ boxA.y + boxA.h > boxB.y)
          => (~overlapping /\ overlapping')]_vars

\* A = (0, 0, 2, 2) and B = (2, 0, 2, 2): they share the edge x = 2.
C16_Witness ==
    /\ boxA = [x |-> 0, y |-> 0, w |-> 2, h |-> 2]
    /\ boxB = [x |-> 2, y |-> 0, w |-> 2, h |-> 2]
    /\ ~overlapping

\* ======================================================================
\* Rect.contains (bindings.py 289-292).
\* ======================================================================
\* contains when the right and bottom edges count as inside.
contains_closed(r, p) ==
    /\ r.x <= p.x /\ p.x <= r.x + r.width
    /\ r.y <= p.y /\ p.y <= r.y + r.height

\* self.x <= point.x < self.x + self.width and
\* self.y <= point.y < self.y + self.height
contains(r, p) ==
    /\ r.x <= p.x /\ p.x < r.x + r.width
    /\ r.y <= p.y /\ p.y < r.y + r.height

\* Rectangles with positive, zero and negative extent.
RectInputs ==
    [x : 0..1, y : 0..1, width : (-1)..MaxSize, height : (-1)..MaxSize]

InitRect ==
    /\ ContextInit
    /\ GameIdle
    /\ WithIdle
    /\ FrameInit
    /\ AabbIdle
    /\ SpriteInit
    /\ MoreIdle
    /\ rect \in RectInputs
    /\ point = [x |-> -1, y |-> -1]
    /\ contained = contains(rect, point)

\* The point moves by one unit and contains is asked again.
MovePoint ==
    /\ \E d \in {[x |-> 1, y |-> 0], [x |-> -1, y |-> 0],
                 [x |-> 0, y |-> 1], [x |-> 0, y |-> -1]} :
           /\ point.x + d.x \in (-1)..MaxCoord
           /\ point.y + d.y \in (-1)..MaxCoord
           /\ point' = [x |-> point.x + d.x, y |-> point.y + d.y]
    /\ contained' = contains(rect, point')
    /\ UNCHANGED <<rect, ctxVars, gameVars, withVars, frameVars, aabbVars,
                   spriteVars, moreVars>>

NextRect == MovePoint

SpecRect == InitRect /\ [][NextRect]_vars

\* C17: Rect.contains(p) is true iff x <= p.x < x + width and
\* y <= p.y < y + height: points on the left and top edges are contained,
\* points on the right and bottom edges are not, and a rectangle of zero or
\* negative width or height contains no point.
C17_HalfOpenContains ==
    /\ contained <=>
           (/\ rect.x <= point.x /\ point.x < rect.x + rect.width
            /\ rect.y <= point.y /\ point.y < rect.y + rect.height)
    /\ (/\ rect.width > 0 /\ rect.height > 0
        /\ \/ (point.x = rect.x /\ rect.y <= point.y
                                /\ point.y < rect.y + rect.height)
           \/ (point.y = rect.y /\ rect.x <= point.x
                                /\ point.x < rect.x + rect.width))
           => contained
    /\ (point.x = rect.x + rect.width \/ point.y = rect.y + rect.height)
           => ~contained
    /\ (rect.width <= 0 \/ rect.height <= 0) => ~contained

\* A point on the right edge of a rectangle with positive extent.
C17_Witness ==
    /\ rect = [x |-> 1, y |-> 0, width |-> 2, height |-> 1]
    /\ point = [x |-> 3, y |-> 0]
    /\ ~contained

\* ======================================================================
\* Sprite: builder-style with_* and in-place setters (bindings.py 539-689).
\* ======================================================================
\* The properties a Sprite can be given, and values for each.
Properties ==
    {"color", "flip_x", "flip_y", "anchor", "source_rect", "custom_size"}

Values(X) ==
    CASE X = "color"       -> {[r |-> 1, g |-> 1, b |-> 1, a |-> 1],
                               [r |-> 1, g |-> 0, b |-> 0, a |-> 1]}
      [] X = "flip_x"      -> BOOLEAN
      [] X = "flip_y"      -> BOOLEAN
      [] X = "anchor"      -> {[x |-> 0, y |-> 0], [x |-> 1, y |-> 1]}
      [] X = "source_rect" -> {[x |-> 0, y |-> 0, width |-> 0, height |-> 0],
                               [x |-> 0, y |-> 0, width |-> 16, height |-> 16]}
      [] X = "custom_size" -> {[x |-> 0, y |-> 0], [x |-> 32, y |-> 32]}

\* native goud_sprite_with_<X>: the struct arrives by value and a changed copy
\* comes back.
goud_sprite_with(ffi, X, v) ==
    CASE X = "color"       -> [ffi EXCEPT !.color = v]
      [] X = "flip_x"      -> [ffi EXCEPT !.flip_x = v]
      [] X = "flip_y"      -> [ffi EXCEPT !.flip_y = v]
      [] X = "anchor"      -> [ffi EXCEPT !.anchor = v]
      [] X = "source_rect" -> [ffi EXCEPT !.source_rect = v,
                                          !.has_source_rect = TRUE]
      [] X = "custom_size" -> [ffi EXCEPT !.custom_size = v,
                                          !.has_custom_size = TRUE]

\* native goud_sprite_set_<X>: writes through the pointer; the value is what
\* the pointed-to struct holds afterwards.
goud_sprite_set(ffi, X, v) ==
    [f \in DOMAIN ffi |->
        IF f = X THEN v
        ELSE IF X \in {"source_rect", "custom_size"} /\ f = "has_" \o X
             THEN TRUE
             ELSE ffi[f]]

\* native goud_sprite_clear_<X>: only the flag is reset.
goud_sprite_clear(ffi, X) ==
    [f \in DOMAIN ffi |-> IF f = "has_" \o X THEN FALSE ELSE ffi[f]]

\* with_color when it goes through the setter and hands back the receiver.
with_color_in_place(s, v) ==
    [self |-> goud_sprite_set(s, "color", v),
     result |-> goud_sprite_set(s, "color", v), same |-> TRUE]

\* The builders: self is the receiver afterwards, result the Sprite returned.
with_color(s, v) ==
    [self |-> s, result |-> goud_sprite_with(s, "color", v), same |-> FALSE]

\* with_flip_x when it calls the native builder of the other axis.
with_flip_x_other_axis(s, v) ==
    [self |-> s, result |-> goud_sprite_with(s, "flip_y", v), same |-> FALSE]

with_flip_x(s, v) ==
    [self |-> s, result |-> goud_sprite_with(s, "flip_x", v), same |-> FALSE]

with_flip_y(s, v) ==
    [self |-> s, result |-> goud_sprite_with(s, "flip_y", v), same |-> FALSE]

with_anchor(s, v) ==
    [self |-> s, result |-> goud_sprite_with(s, "anchor", v), same |-> FALSE]

with_source_rect(s, v) ==
    [self |-> s, result |-> goud_sprite_with(s, "source_rect", v),
     same |-> FALSE]

with_custom_size(s, v) ==
    [self |-> s, result |-> goud_sprite_with(s, "custom_size", v),
     same |-> FALSE]

\* The property setters: the receiver afterwards.
set_color(s, v) == goud_sprite_set(s, "color", v)

set_flip_x(s, v) == goud_sprite_set(s, "flip_x", v)

set_flip_y(s, v) == goud_sprite_set(s, "flip_y", v)

set_anchor(s, v) == goud_sprite_set(s, "anchor", v)

\* The chaining setters return self.
set_source_rect(s, v) ==
    [self |-> goud_sprite_set(s, "source_rect", v),
     result |-> goud_sprite_set(s, "source_rect", v), same |-> TRUE]

set_custom_size(s, v) ==
    [self |-> goud_sprite_set(s, "custom_size", v),
     result |-> goud_sprite_set(s, "custom_size", v), same |-> TRUE]

\* clear_source_rect when it calls the native clear of the custom size.
clear_source_rect_other_flag(s) ==
    [self |-> goud_sprite_clear(s, "custom_size"),
     result |-> goud_sprite_clear(s, "custom_size"), same |-> TRUE]

clear_source_rect(s) ==
    [self |-> goud_sprite_clear(s, "source_rect"),
     result |-> goud_sprite_clear(s, "source_rect"), same |-> TRUE]

clear_custom_size(s) ==
    [self |-> goud_sprite_clear(s, "custom_size"),
     result |-> goud_sprite_clear(s, "custom_size"), same |-> TRUE]

\* s.with_<X>(v), s.<X> = v or s.set_<X>(v), and s.clear_<X>().
With(s, X, v) ==
    CASE X = "color"       -> with_color(s, v)
      [] X = "flip_x"      -> with_flip_x(s, v)
      [] X = "flip_y"      -> with_flip_y(s, v)
      [] X = "anchor"      -> with_anchor(s, v)
      [] X = "source_rect" -> with_source_rect(s, v)
      [] X = "custom_size" -> with_custom_size(s, v)

Set(s, X, v) ==
    CASE X = "color"       -> set_color(s, v)
      [] X = "flip_x"      -> set_flip_x(s, v)
      [] X = "flip_y"      -> set_flip_y(s, v)
      [] X = "anchor"      -> set_anchor(s, v)
      [] X = "source_rect" -> set_source_rect(s, v).self
      [] X = "custom_size" -> set_custom_size(s, v).self

Clear(s, X) ==
    CASE X = "source_rect" -> clear_source_rect(s)
      [] X = "custom_size" -> clear_custom_size(s)

InitSprite ==
    /\ ContextInit
    /\ GameIdle
    /\ WithIdle
    /\ FrameInit
    /\ AabbIdle
    /\ RectIdle
    /\ SpriteInit
    /\ MoreIdle

BuildSprite ==
    /\ \E X \in Properties : \E v \in Values(X) :
           LET r == With(sprite, X, v)
           IN /\ sprite' = r.self
              /\ built' = r.result
              /\ builtIsSelf' = r.same
    /\ UNCHANGED <<ctxVars, gameVars, withVars, frameVars, aabbVars, rectVars,
                   moreVars>>

\* A setter writes into the receiver; a name bound to the receiver sees it.
SetSprite ==
    /\ \E X \in Properties : \E v \in Values(X) :
           LET chained == X \in {"source_rect", "custom_size"}
           IN /\ sprite' = Set(sprite, X, v)
              /\ builtIsSelf' = (chained \/ builtIsSelf)
              /\ built' = IF chained \/ builtIsSelf
                          THEN Set(sprite, X, v) ELSE built
    /\ UNCHANGED <<ctxVars, gameVars, withVars, frameVars, aabbVars, rectVars,
                   moreVars>>

ClearSprite ==
    /\ \E X \in {"source_rect", "custom_size"} :
           LET r == Clear(sprite, X)
           IN /\ sprite' = r.self
              /\ built' = r.result
              /\ builtIsSelf' = r.same
    /\ UNCHANGED <<ctxVars, gameVars, withVars, frameVars, aabbVars, rectVars,
                   moreVars>>

NextSprite ==
    \/ BuildSprite
    \/ SetSprite
    \/ ClearSprite

SpecSprite == InitSprite /\ [][NextSprite]_vars

\* The fields a property owns: itself and, for the two optional ones, the flag.
FieldsOf(X) ==
    IF X \in {"source_rect", "custom_size"} THEN {X, "has_" \o X} ELSE {X}

\* C18: every with_* (with_color, with_flip_x, with_flip_y, with_anchor,
\* with_source_rect, with_custom_size) returns a new Sprite and leaves the
\* receiver unchanged, while the corresponding setter changes the instance it
\* is called on.
C18_BuildersLeaveReceiver ==
    /\ [](\A X \in Properties : \A v \in Values(X) :
            /\ With(sprite, X, v).self = sprite
            /\ ~With(sprite, X, v).same
            /\ With(sprite, X, v).result[X] = v
            /\ Set(sprite, X, v)[X] = v
            /\ sprite[X] # v => Set(sprite, X, v) # sprite)
    /\ [][BuildSprite => (sprite' = sprite /\ ~builtIsSelf')]_vars

C18_Witness ==
    /\ ~builtIsSelf
    /\ sprite.flip_x
    /\ sprite.color = [r |-> 1, g |-> 1, b |-> 1, a |-> 1]
    /\ built.color = [r |-> 1, g |-> 0, b |-> 0, a |-> 1]
    /\ built.flip_x

\* C19: for every property X and value v, s.with_X(v) has the same field
\* values as a copy of s has after set_X(v), and only the fields of X (with
\* the matching has_* flag) differ from s.
C19_BuilderEqualsSetter ==
    /\ [](\A X \in Properties : \A v \in Values(X) :
            /\ With(sprite, X, v).result = Set(sprite, X, v)
            /\ \A f \in DOMAIN sprite \ FieldsOf(X) :
                   With(sprite, X, v).result[f] = sprite[f])
    /\ [][BuildSprite =>
            \E X \in Properties :
                /\ built' = Set(sprite, X, built'[X])
                /\ \A f \in DOMAIN sprite \ FieldsOf(X) :
                       built'[f] = sprite[f]]_vars

C19_Witness ==
    /\ ~builtIsSelf
    /\ sprite.flip_y
    /\ ~sprite.has_source_rect
    /\ built.has_source_rect
    /\ built.source_rect.width = 16
    /\ built = [sprite EXCEPT !.source_rect = built.source_rect,
                              !.has_source_rect = TRUE]

\* C20: set_source_rect and set_custom_size set the matching has_* flag to
\* true; clear_source_rect and clear_custom_size set only that flag to false
\* and leave the numeric fields and every other field as they were.
C20_ClearResetsOnlyFlag ==
    /\ [](/\ \A v \in Values("source_rect") :
                 set_source_rect(sprite, v).self =
                     [sprite EXCEPT !.source_rect = v,
                                    !.has_source_rect = TRUE]
          /\ \A v \in Values("custom_size") :
                 set_custom_size(sprite, v).self =
                     [sprite EXCEPT !.custom_size = v,
                                    !.has_custom_size = TRUE]
          /\ clear_source_rect(sprite).self =
                 [sprite EXCEPT !.has_source_rect = FALSE]
          /\ clear_custom_size(sprite).self =
                 [sprite EXCEPT !.has_custom_size = FALSE])
    /\ [][ClearSprite =>
            /\ sprite'.source_rect = sprite.source_rect
            /\ sprite'.custom_size = sprite.custom_size
            /\ \/ sprite' = [sprite EXCEPT !.has_source_rect = FALSE]
               \/ sprite' = [sprite EXCEPT !.has_custom_size = FALSE]]_vars

\* A source rectangle set and cleared again, a custom size still set.
C20_Witness ==
    /\ builtIsSelf
    /\ ~sprite.has_source_rect
    /\ sprite.source_rect.width = 16
    /\ sprite.has_custom_size
    /\ sprite.custom_size.x = 32

\* ======================================================================
\* Transform2D (bindings.py 317-509).
\* ======================================================================
\* The vector of length One at angle r, for whole quarter turns.
UnitVector(r) ==
    CASE r % (4 * Quarter) = 0           -> [x |-> One, y |-> 0]
      [] r % (4 * Quarter) = Quarter     -> [x |-> 0, y |-> One]
      [] r % (4 * Quarter) = 2 * Quarter -> [x |-> -One, y |-> 0]
      [] r % (4 * Quarter) = 3 * Quarter -> [x |-> 0, y |-> -One]

\* The vector (x, y) turned by the angle r.
Rotated(x, y, r) ==
    [x |-> (x * UnitVector(r).x - y * UnitVector(r).y) \div One,
     y |-> (x * UnitVector(r).y + y * UnitVector(r).x) \div One]

\* native goud_transform2d_translate / rotate / scale_by / look_at_target:
\* the value the pointed-to struct holds afterwards. look_at_target turns
\* toward a target on one of the axes through the position (atan2).
goud_transform2d_mutate(ffi, op, x, y) ==
    CASE op = "translate" ->
             [ffi EXCEPT !.position_x = ffi.position_x + x,
                         !.position_y = ffi.position_y + y]
      [] op = "rotate" -> [ffi EXCEPT !.rotation = ffi.rotation + x]
      [] op = "scale_by" ->
             [ffi EXCEPT !.scale_x = (ffi.scale_x * x) \div One,
                         !.scale_y = (ffi.scale_y * y) \div One]
      [] op = "look_at_target" ->
             [ffi EXCEPT !.rotation =
                 CASE y = ffi.position_y /\ x >= ffi.position_x -> 0
                   [] x = ffi.position_x /\ y > ffi.position_y -> Quarter
                   [] y = ffi.position_y /\ x < ffi.position_x -> 2 * Quarter
                   [] x = ffi.position_x /\ y < ffi.position_y -> -Quarter]

\* native goud_transform2d_forward / right / backward / left.
goud_transform2d_direction(ffi, dir) ==
    CASE dir = "forward"  -> UnitVector(ffi.rotation)
      [] dir = "right"    -> [x |-> UnitVector(ffi.rotation).y,
                              y |-> -UnitVector(ffi.rotation).x]
      [] dir = "backward" -> [x |-> -UnitVector(ffi.rotation).x,
                              y |-> -UnitVector(ffi.rotation).y]
      [] dir = "left"     -> [x |-> -UnitVector(ffi.rotation).y,
                              y |-> UnitVector(ffi.rotation).x]

\* native: scale the local point, turn it, then add the position.
goud_transform2d_transform_point(ffi, x, y) ==
    LET turned == Rotated((x * ffi.scale_x) \div One,
                          (y * ffi.scale_y) \div One, ffi.rotation)
    IN [x |-> turned.x + ffi.position_x, y |-> turned.y + ffi.position_y]

\* native: take the position off, turn back, then divide by the scale.
goud_transform2d_inverse_transform_point(ffi, x, y) ==
    LET turned == Rotated(x - ffi.position_x, y - ffi.position_y,
                          -ffi.rotation)
    IN [x |-> CHOOSE q \in -8..8 : q * ffi.scale_x = turned.x * One,
        y |-> CHOOSE q \in -8..8 : q * ffi.scale_y = turned.y * One]

\* native: every field goes the fraction t (One is all the way) from a to b.
goud_transform2d_lerp(a, b, t) ==
    [f \in DOMAIN a |-> a[f] + ((b[f] - a[f]) * t) \div One]

\* scale_by when it stores the factors instead of multiplying by them.
scale_by_stores(t, factor_x, factor_y) ==
    [self |-> [t EXCEPT !.scale_x = factor_x, !.scale_y = factor_y],
     same |-> TRUE]

\* The mutators: self is the receiver afterwards; they return self.
scale_by(t, factor_x, factor_y) ==
    [self |-> goud_transform2d_mutate(t, "scale_by", factor_x, factor_y),
     same |-> TRUE]

translate(t, dx, dy) ==
    [self |-> goud_transform2d_mutate(t, "translate", dx, dy), same |-> TRUE]

rotate(t, angle) ==
    [self |-> goud_transform2d_mutate(t, "rotate", angle, 0), same |-> TRUE]

look_at_target(t, target_x, target_y) ==
    [self |-> goud_transform2d_mutate(t, "look_at_target", target_x, target_y),
     same |-> TRUE]

forward(t) == goud_transform2d_direction(t, "forward")

\* right when it asks the native library for the left vector.
right_asks_left(t) == goud_transform2d_direction(t, "left")

right(t) == goud_transform2d_direction(t, "right")

backward(t) == goud_transform2d_direction(t, "backward")

left(t) == goud_transform2d_direction(t, "left")

\* transform_point when it hands the coordinates over in the other order.
transform_point_swapped(t, x, y) ==
    goud_transform2d_transform_point(t, y, x)

transform_point(t, x, y) == goud_transform2d_transform_point(t, x, y)

\* inverse_transform_point when it calls the forward mapping.
inverse_transform_point_forward(t, x, y) ==
    goud_transform2d_transform_point(t, x, y)

inverse_transform_point(t, x, y) ==
    goud_transform2d_inverse_transform_point(t, x, y)

\* lerp when it hands the two transforms over in the other order.
lerp_swapped(t, o, f) ==
    [self |-> t, other |-> o, result |-> goud_transform2d_lerp(o, t, f),
     same |-> FALSE]

\* lerp: both structs go by value and a new Transform2D comes back.
lerp(t, o, f) ==
    [self |-> t, other |-> o, result |-> goud_transform2d_lerp(t, o, f),
     same |-> FALSE]

MaxPos == 1

MaxTurns == 2

\* Offsets, coordinates of points, and scale factors (1, -1, 2 and 0).
DeltaCoords == {-One, 0, One}

PointCoords == {-2 * One, -One, 0, One, 2 * One}

ScaleFactors == {One, -One, 2 * One, 0}

\* The second transform of a lerp.
OtherInputs ==
    [position_x : {2 * One}, position_y : {-One}, rotation : {Quarter},
     scale_x : {One, 2 * One}, scale_y : {-One}]

InitTransform ==
    /\ ContextInit
    /\ GameIdle
    /\ WithIdle
    /\ FrameInit
    /\ PureIdle
    /\ DrawIdle
    /\ PairIdle
    /\ LastIdle
    /\ transform = Transform2D_default
    /\ other \in OtherInputs
    /\ returned = transform
    /\ returnedIsSelf = TRUE

\* A mutator writes into the receiver and returns it.
Mutated(r) ==
    /\ r.self.position_x \in (-MaxPos * One)..(MaxPos * One)
    /\ r.self.position_y \in (-MaxPos * One)..(MaxPos * One)
    /\ r.self.rotation \in (-MaxTurns * Quarter)..(MaxTurns * Quarter)
    /\ r.self.scale_x \in PointCoords
    /\ r.self.scale_y \in PointCoords
    /\ transform' = r.self
    /\ returned' = r.self
    /\ returnedIsSelf' = r.same
    /\ UNCHANGED <<other, ctxVars, gameVars, withVars, frameVars, pureVars,
                   drawVars, pairVars, lastVars>>

Translate ==
    \E dx \in DeltaCoords, dy \in DeltaCoords :
        Mutated(translate(transform, dx, dy))

Rotate == \E angle \in {Quarter, -Quarter} : Mutated(rotate(transform, angle))

ScaleBy ==
    \E fx \in ScaleFactors, fy \in ScaleFactors :
        Mutated(scale_by(transform, fx, fy))

LookAtTarget ==
    \E x \in PointCoords, y \in PointCoords :
        /\ x = transform.position_x \/ y = transform.position_y
        /\ Mutated(look_at_target(transform, x, y))

Lerp ==
    /\ \E f \in {0, One \div 2, One} :
           LET r == lerp(transform, other, f)
           IN /\ transform' = r.self
              /\ other' = r.other
              /\ returned' = r.result
              /\ returnedIsSelf' = r.same
    /\ UNCHANGED <<ctxVars, gameVars, withVars, frameVars, pureVars, drawVars,
                   pairVars, lastVars>>

NextTransform ==
    \/ Translate
    \/ Rotate
    \/ ScaleBy
    \/ LookAtTarget
    \/ Lerp

SpecTransform == InitTransform /\ [][NextTransform]_vars

\* C21: each Transform2D mutator changes only its own field and returns the
\* same instance: translate adds (dx, dy) to position, rotate adds the angle
\* to rotation, scale_by multiplies scale component-wise, look_at_target
\* changes rotation only; every other field stays as it was.
C21_MutatorsTouchOwnField ==
    /\ [](/\ \A dx \in DeltaCoords, dy \in DeltaCoords :
                 /\ translate(transform, dx, dy).self =
                        [transform EXCEPT
                            !.position_x = transform.position_x + dx,
                            !.position_y = transform.position_y + dy]
                 /\ translate(transform, dx, dy).same
          /\ \A angle \in {Quarter, -Quarter} :
                 /\ rotate(transform, angle).self =
                        [transform EXCEPT
                            !.rotation = transform.rotation + angle]
                 /\ rotate(transform, angle).same
          /\ \A fx \in ScaleFactors, fy \in ScaleFactors :
                 LET r == scale_by(transform, fx, fy)
                 IN /\ r.self.scale_x * One = transform.scale_x * fx
                    /\ r.self.scale_y * One = transform.scale_y * fy
                    /\ r.self = [transform EXCEPT !.scale_x = r.self.scale_x,
                                                  !.scale_y = r.self.scale_y]
                    /\ r.same
          /\ \A x \in PointCoords :
                 LET r == look_at_target(transform, x, transform.position_y)
                 IN /\ r.self = [transform EXCEPT !.rotation = r.self.rotation]
                    /\ r.same)
    /\ [][transform' # transform =>
              (returnedIsSelf' /\ returned' = transform')]_vars

C21_Witness ==
    /\ returnedIsSelf
    /\ transform.position_x = One /\ transform.position_y = -One
    /\ transform.rotation = 2 * Quarter
    /\ transform.scale_x = 2 * One /\ transform.scale_y = -One

\* C22: for all transforms a and b, a.lerp(b, 0) equals a and a.lerp(b, 1)
\* equals b in position, rotation and scale; a.lerp(b, 0.5) has position and
\* scale equal to the arithmetic midpoint of a's and b's; lerp modifies
\* neither a nor b and returns a new Transform2D.
C22_LerpEndpointsAndMidpoint ==
    /\ [](/\ lerp(transform, other, 0).result = transform
          /\ lerp(transform, other, One).result = other
          /\ lerp(other, transform, 0).result = other
          /\ LET mid == lerp(transform, other, One \div 2).result
             IN /\ 2 * mid.position_x = transform.position_x + other.position_x
                /\ 2 * mid.position_y = transform.position_y + other.position_y
                /\ 2 * mid.scale_x = transform.scale_x + other.scale_x
                /\ 2 * mid.scale_y = transform.scale_y + other.scale_y
          /\ \A f \in {0, One \div 2, One} :
                 /\ lerp(transform, other, f).self = transform
                 /\ lerp(transform, other, f).other = other
                 /\ ~lerp(transform, other, f).same)
    /\ [][Lerp => (transform' = transform /\ other' = other
                   /\ ~returnedIsSelf')]_vars

\* The midpoint of a moved, turned and scaled transform and another one.
C22_Witness ==
    /\ ~returnedIsSelf
    /\ transform.position_x = -One
    /\ transform.scale_y = 2 * One
    /\ transform.rotation = -Quarter
    /\ other.position_x = 2 * One
    /\ returned.position_x = One \div 2
    /\ returned.scale_y = One \div 2
    /\ returned.rotation = 0

\* C23: for every transform with non-zero scale on both axes, any rotation
\* and any translation, and every local point p,
\* inverse_transform_point(transform_point(p)) equals p, and likewise
\* transform_point(inverse_transform_point(w)) equals w for every world
\* point w.
C23_PointRoundTrip ==
    (transform.scale_x # 0 /\ transform.scale_y # 0) =>
        \A x \in PointCoords, y \in PointCoords :
            LET world == transform_point(transform, x, y)
                local == inverse_transform_point(transform, x, y)
            IN /\ inverse_transform_point(transform, world.x, world.y)
                      = [x |-> x, y |-> y]
               /\ transform_point(transform, local.x, local.y)
                      = [x |-> x, y |-> y]

C23_Witness ==
    /\ transform.position_x = One /\ transform.position_y = -One
    /\ transform.rotation = Quarter
    /\ transform.scale_x = 2 * One /\ transform.scale_y = -One
    /\ transform_point(transform, One, 2 * One) = [x |-> 3 * One, y |-> One]
    /\ inverse_transform_point(transform, 3 * One, One)
           = [x |-> One, y |-> 2 * One]

\* C24: transform_point(local) applies the components in the fixed order
\* scale, rotate, translate: the local point is multiplied component-wise by
\* scale, the result is turned by rotation, and position is added last; with
\* non-uniform scale and a quarter-turn rotation the result differs from
\* rotating before scaling.
C24_ScaleRotateTranslate ==
    /\ \A x \in PointCoords, y \in PointCoords :
           LET scaled == [x |-> (x * transform.scale_x) \div One,
                          y |-> (y * transform.scale_y) \div One]
               turned == Rotated(scaled.x, scaled.y, transform.rotation)
           IN transform_point(transform, x, y) =
                  [x |-> turned.x + transform.position_x,
                   y |-> turned.y + transform.position_y]
    /\ (/\ transform.scale_x # transform.scale_y
        /\ transform.rotation % (2 * Quarter) = Quarter) =>
           LET turned == Rotated(One, 0, transform.rotation)
               scaled == [x |-> (turned.x * transform.scale_x) \div One,
                          y |-> (turned.y * transform.scale_y) \div One]
           IN transform_point(transform, One, 0) #
                  [x |-> scaled.x + transform.position_x,
                   y |-> scaled.y + transform.position_y]

\* Scale (2, 1), a quarter turn, moved to (1, 0): (1, 0) maps to (1, 2).
C24_Witness ==
    /\ transform.scale_x = 2 * One /\ transform.scale_y = One
    /\ transform.rotation = Quarter
    /\ transform.position_x = One /\ transform.position_y = 0
    /\ transform_point(transform, One, 0) = [x |-> One, y |-> 2 * One]

InitDraw == InitFrame

GameLoadTexture ==
    /\ \E path \in PathInputs, okay \in BOOLEAN :
           SetGame(load_texture(Game, path, okay).g)
    /\ UNCHANGED <<ctxVars, withVars, laterVars>>

GameDestroy ==
    /\ SetGame(game_destroy(Game))
    /\ UNCHANGED <<ctxVars, withVars, laterVars>>

\* The host calls _lib.goud_texture_destroy on a handle of the game.
TextureDestroy ==
    /\ \E h \in TextureInputs :
           hostReleased' =
               goud_texture_destroy(Game, game_context_valid, Renderer, h).r.released
    /\ UNCHANGED <<ctxVars, gameVars, withVars, frameVars, pureVars,
                   transformVars, pairVars, lastVars>>

DrawSprite ==
    /\ quads < MaxQuads
    /\ \E texture \in TextureInputs :
           quads' = draw_sprite(Game, Renderer, texture).r.quads
    /\ UNCHANGED <<hw, curr, prev, delta_time, rendering, history,
                   ctxVars, gameVars, withVars, pureVars, moreVars>>

NextDraw ==
    \/ GameLoadTexture
    \/ GameDestroy
    \/ TextureDestroy
    \/ DrawSprite
    \/ DrawQuad
    \/ BeginFrame

SpecDraw == InitDraw /\ [][NextDraw]_vars

\* C26: draw_sprite and draw_quad each either submit exactly one draw and
\* return success, or submit nothing and return failure; they return failure
\* whenever the game's context is invalid and, for draw_sprite, whenever the
\* texture handle is INVALID; and the frame a begin_frame starts holds none of
\* the draws submitted before it.
C26_DrawOneOrNothing ==
    /\ [](\A texture \in TextureInputs :
             LET s == draw_sprite(Game, Renderer, texture)
                 q == draw_quad(Game, Renderer)
             IN /\ \/ s.ok /\ s.r = [Renderer EXCEPT !.quads = quads + 1]
                   \/ ~s.ok /\ s.r = Renderer
                /\ \/ q.ok /\ q.r = [Renderer EXCEPT !.quads = quads + 1]
                   \/ ~q.ok /\ q.r = Renderer
                /\ (~game_context_valid \/ texture = AllOnes) => ~s.ok
                /\ ~game_context_valid => ~q.ok)
    /\ [][Len(history') > Len(history) => quads' = 0]_vars

\* A second frame in which one draw was submitted, with a texture whose draw
\* succeeds while a draw of the INVALID handle fails.
C26_Witness ==
    /\ Len(history) >= 2
    /\ quads = 1
    /\ \E texture \in TextureInputs : draw_sprite(Game, Renderer, texture).ok
    /\ ~draw_sprite(Game, Renderer, AllOnes).ok
    /\ draw_quad(Game, Renderer).ok

\* C27: whatever load_texture and destroy calls were made on a GoudGame, no
\* texture or window is released while the game is valid; once destroy() has
\* run every handle the game loaded has been released exactly once and the
\* window destroyed exactly once, a further destroy() changes nothing, and
\* is_valid() and is_running() are false.
C27_GameReleasesOnce ==
    /\ game_context_valid =>
           /\ \A h \in texLoaded : texReleases[h] = 0
           /\ windowDestroys = 0
           /\ GoudGame_is_valid(Game)
    /\ ~game_context_valid =>
           /\ \A h \in texLoaded : texReleases[h] = 1
           /\ windowDestroys = 1
           /\ game_destroy(Game) = Game
           /\ ~GoudGame_is_valid(Game)
           /\ \A should_close \in BOOLEAN : ~is_running(Game, should_close)

\* A game destroyed after it had loaded two textures.
C27_Witness ==
    /\ ~game_context_valid
    /\ Cardinality(texLoaded) >= 2
    /\ \A h \in texLoaded : texReleases[h] = 1
    /\ windowDestroys = 1

\* The texture handles released so far: by the destroy() of the game that
\* loaded them, or by a goud_texture_destroy call of the host.
ReleasedTextures ==
    {h \in texLoaded : texReleases[h] > 0 \/ h \in hostReleased}

\* C28: in every state in which a texture handle has been released, by a
\* texture destroy or by the destroy() of the game that owns it, a
\* draw_sprite call with that handle returns failure and submits no draw.
C28_ReleasedTextureFailsToDraw ==
    \A h \in ReleasedTextures :
        /\ ~draw_sprite(Game, Renderer, h).ok
        /\ draw_sprite(Game, Renderer, h).r = Renderer

\* A valid game in a begun frame, one of its textures released by a texture
\* destroy and another still live: the draw of the first fails, the draw of
\* the second succeeds.
C28_Witness ==
    /\ game_context_valid
    /\ Len(history) >= 1
    /\ \E h \in hostReleased : ~draw_sprite(Game, Renderer, h).ok
    /\ \E h \in texLoaded \ hostReleased : draw_sprite(Game, Renderer, h).ok

\* ---------------------------------------------------------------------------
\* Two GoudContext instances side by side
\* ---------------------------------------------------------------------------

MaxPairSlots == 2
MaxPairDespawns == 1

ContextNames == {"A", "B"}

\* The part of the two slot tables that is explored: so many slots, and so
\* many despawns in all (each despawn adds one to a generation).
PairBounded(w) ==
    /\ Len(w.slots) <= MaxPairSlots
    /\ Cardinality({p \in (1..Len(w.slots)) \X (1..(MaxPairDespawns + 1)) :
                       p[2] <= w.slots[p[1]].gen}) <= MaxPairDespawns

\* native: the contexts by their id.
Contexts == [c \in ContextNames |-> IF c = "A" THEN World ELSE worldB]

\* GoudContext._destroyed of each instance.
Destroyed == [c \in ContextNames |-> IF c = "A" THEN destroyed ELSE destroyedB]

\* The id when it is kept on the class: every instance names the context
\* created first.
GoudContext_id_of_class(c) == "A"

\* GoudContext.id: the _id the instance was constructed with, which every
\* method passes to the native call.
GoudContext_id(c) == c

\* The native context the calls of instance c reach, and the contexts after
\* such a call left that context as w.
Reached(cs, c) == cs[GoudContext_id(c)]

Stored(cs, c, w) == [cs EXCEPT ![GoudContext_id(c)] = w]

SetContexts(cs) ==
    /\ SetWorld(cs["A"])
    /\ worldB' = cs["B"]

\* GoudContext.create() twice.
InitPair ==
    /\ ContextInit
    /\ GameIdle
    /\ WithIdle
    /\ FrameInit
    /\ PureIdle
    /\ TransformIdle
    /\ DrawIdle
    /\ LastIdle
    /\ worldB = [slots |-> <<>>, free |-> <<>>, valid |-> TRUE]
    /\ destroyedB = FALSE
    /\ issuedB = {}

PairSpawn ==
    /\ \E c \in ContextNames :
           LET r == spawn_entity(Reached(Contexts, c))
           IN /\ PairBounded(r.w)
              /\ SetContexts(Stored(Contexts, c, r.w))
              /\ issued' = IF c = "A" THEN issued \cup SetOf(r.ids) ELSE issued
              /\ issuedB' = IF c = "B" THEN issuedB \cup SetOf(r.ids) ELSE issuedB
    /\ UNCHANGED <<releases, nativeDestroyCalls, destroyed, destroyCalls,
                   despawned, destroyedB, gameVars, withVars, frameVars,
                   pureVars, transformVars, drawVars, lastVars>>

\* A caller passes to either context a handle either context returned.
PairDespawn ==
    /\ \E c \in ContextNames, id \in issued \cup issuedB \cup {INVALID} :
           LET r == despawn_entity(Reached(Contexts, c), id)
           IN /\ PairBounded(r.w)
              /\ SetContexts(Stored(Contexts, c, r.w))
              /\ despawned' = IF c = "A" /\ r.ok
                              THEN despawned \cup {id} ELSE despawned
    /\ UNCHANGED <<releases, nativeDestroyCalls, destroyed, destroyCalls,
                   issued, destroyedB, issuedB, gameVars, withVars, frameVars,
                   pureVars, transformVars, drawVars, lastVars>>

\* Each instance is destroyed once here; a second destroy() is an operation
\* of Spec.
PairDestroy ==
    /\ \E c \in ContextNames :
           LET r == destroy(Reached(Contexts, c), Destroyed[c])
           IN /\ ~Destroyed[c]
              /\ SetContexts(Stored(Contexts, c, r.w))
              /\ destroyed' = IF c = "A" THEN r.destroyed ELSE destroyed
              /\ destroyedB' = IF c = "B" THEN r.destroyed ELSE destroyedB
              /\ nativeDestroyCalls' =
                     IF c = "A" THEN nativeDestroyCalls + r.calls
                     ELSE nativeDestroyCalls
              /\ releases' = IF c = "A" THEN releases + r.released ELSE releases
              /\ destroyCalls' = IF c = "A" THEN destroyCalls + 1 ELSE destroyCalls
    /\ UNCHANGED <<issued, despawned, issuedB, gameVars, withVars, frameVars,
                   pureVars, transformVars, drawVars, lastVars>>

NextPair ==
    \/ PairSpawn
    \/ PairDespawn
    \/ PairDestroy

SpecPair == InitPair /\ [][NextPair]_vars

\* C29: context B reports every handle context A returned as a failure:
\* despawn_entity on B returns false for it and leaves B's entities as they
\* were, and is_entity_alive on B returns false for it.
C29_ForeignHandleFails ==
    \A id \in issued :
        /\ ~despawn_entity(Reached(Contexts, "B"), id).ok
        /\ despawn_entity(Reached(Contexts, "B"), id).w = Reached(Contexts, "B")
        /\ ~is_entity_alive(Reached(Contexts, "B"), id)

\* The handles either context returned, and INVALID.
PairHandles == issued \cup issuedB \cup {INVALID}

\* The contexts after one spawn_entity, spawn_entities or despawn_entity call
\* on instance c.
AfterEntityCall(c) ==
    {Stored(Contexts, c, spawn_entity(Reached(Contexts, c)).w)}
  \cup
    {Stored(Contexts, c, spawn_entities(Reached(Contexts, c), count).w) :
        count \in 0..MaxSpawnBatch}
  \cup
    {Stored(Contexts, c, despawn_entity(Reached(Contexts, c), id).w) :
        id \in PairHandles}

\* What instance o answers on the contexts cs.
Answered(cs, o) ==
    [count |-> entity_count(Reached(cs, o)),
     alive |-> {id \in PairHandles : is_entity_alive(Reached(cs, o), id)},
     valid |-> is_valid(Reached(cs, o), Destroyed[o])]

Exhausted(w) == w.free = <<>> /\ Len(w.slots) = MaxSlots

\* What C31 says of every state but the cause of the GoudEngineError: no
\* handle spawn returned and no live handle is INVALID, spawn_entity returns
\* one live handle or raises and returns none, and INVALID is neither alive
\* nor despawned.
InvalidNeverLive ==
    /\ INVALID \notin issued
    /\ \A id \in HandleInputs : is_entity_alive(World, id) => id # INVALID
    /\ LET r == spawn_entity(World)
       IN /\ INVALID \notin SetOf(r.ids)
          /\ r.raised => r.ids = <<>>
          /\ ~r.raised => Len(r.ids) = 1 /\ is_entity_alive(r.w, r.ids[1])
    /\ ~is_entity_alive(World, INVALID)
    /\ ~despawn_entity(World, INVALID).ok
    /\ despawn_entity(World, INVALID).w = World

\* C31 as stated: in every reachable state no live handle equals INVALID,
\* spawn_entity never returns INVALID but raises GoudEngineError, which happens
\* only on allocator exhaustion, is_entity_alive(INVALID) is false and
\* despawn_entity(INVALID) returns false.
C31_RaisesOnlyOnExhaustion ==
    /\ InvalidNeverLive
    /\ spawn_entity(World).raised => Exhausted(World)

\* C31, amended: as above, but spawn_entity raises GoudEngineError only on
\* allocator exhaustion or on a context that has been destroyed.
C31_InvalidNeverLive ==
    /\ InvalidNeverLive
    /\ spawn_entity(World).raised => (Exhausted(World) \/ ~World.valid)

\* A valid context whose allocator is exhausted: spawn_entity raises, and the
\* handles it returned before are all different from INVALID.
C31_Witness ==
    /\ World.valid
    /\ Exhausted(World)
    /\ spawn_entity(World).raised
    /\ Cardinality(issued) >= MaxSlots
    /\ ~despawn_entity(World, INVALID).ok

\* ---------------------------------------------------------------------------
\* Color.from_hex (bindings.py 251-266)
\* ---------------------------------------------------------------------------
\* A hex value is kept as its two 16-bit halves, value = hi * 2^16 + lo, and a
\* colour component as the numerator of n / 255.0.
ByteInputs == {0, 1, 128, 255}

\* 0xRRGGBB and 0xRRGGBBAA.
Rgb(rr, gg, bb) == [hi |-> rr, lo |-> gg * 256 + bb]

Rgba(rr, gg, bb, aa) == [hi |-> rr * 256 + gg, lo |-> bb * 256 + aa]

\* (hex_value >> n) & 0xFF for n = 24, 16, 8, 0.
ShiftedByte(v, n) ==
    CASE n = 24 -> (v.hi \div 256) % 256
      [] n = 16 -> v.hi % 256
      [] n = 8  -> (v.lo \div 256) % 256
      [] n = 0  -> v.lo % 256

from_hex(v) ==
    IF v.hi > 255
    THEN [r |-> ShiftedByte(v, 24), g |-> ShiftedByte(v, 16),
          b |-> ShiftedByte(v, 8), a |-> ShiftedByte(v, 0)]
    ELSE [r |-> ShiftedByte(v, 16), g |-> ShiftedByte(v, 8),
          b |-> ShiftedByte(v, 0), a |-> 255]

\* The hex value a caller writes for the bytes it means.
HexOf(m) ==
    IF m.kind = "rgb" THEN Rgb(m.rr, m.gg, m.bb)
    ELSE Rgba(m.rr, m.gg, m.bb, m.aa)

InitColor ==
    /\ ContextInit
    /\ GameIdle
    /\ WithIdle
    /\ FrameInit
    /\ PureIdle
    /\ MoreIdle

FromHex ==
    /\ \E kind \in {"rgb", "rgba"}, rr, gg, bb, aa \in ByteInputs :
           /\ kind = "rgb" => aa = 255
           /\ meant' = [kind |-> kind, rr |-> rr, gg |-> gg, bb |-> bb,
                        aa |-> aa]
           /\ color' = from_hex(HexOf(meant'))
    /\ UNCHANGED <<ctxVars, gameVars, withVars, frameVars, pureVars,
                   transformVars, drawVars, pairVars, loopVars, flappyVars>>

NextColor == FromHex

SpecColor == InitColor /\ [][NextColor]_vars

\* C32: from_hex decodes both encodings for every byte value: the Color it
\* returns for 0xRRGGBB is (RR/255, GG/255, BB/255, 1) and the Color it
\* returns for 0xRRGGBBAA is (RR/255, GG/255, BB/255, AA/255).
C32_FromHexDecodesBoth ==
    /\ meant.kind = "rgb" =>
           color = [r |-> meant.rr, g |-> meant.gg, b |-> meant.bb, a |-> 255]
    /\ meant.kind = "rgba" =>
           color = [r |-> meant.rr, g |-> meant.gg, b |-> meant.bb,
                    a |-> meant.aa]

\* ---------------------------------------------------------------------------
\* The host loop (flappy_bird.py 651-663) and the native calls of a frame
\* ---------------------------------------------------------------------------
MaxLoopFrames == 2
MaxLoopDraws == 2

\* The native calls begin_frame makes, in order.
begin_frame_calls == <<"poll_events", "clear", "renderer_begin">>

\* end_frame when it presents before it ends the renderer.
end_frame_calls_swap_first == <<"swap_buffers", "renderer_end">>

\* The native calls end_frame makes, in order.
end_frame_calls == <<"renderer_end", "swap_buffers">>

DrawCalls == {"draw_sprite", "draw_quad"}

Count(seq, names) == Cardinality({i \in 1..Len(seq) : seq[i] \in names})

\* The draw calls made since the last renderer_begin.
DrawsInFrame ==
    Count(calls, DrawCalls) -
        Count(SubSeq(calls, 1,
                     CHOOSE k \in 0..Len(calls) :
                         /\ k = 0 \/ calls[k] = "renderer_begin"
                         /\ \A j \in (k + 1)..Len(calls) :
                                calls[j] # "renderer_begin"),
              DrawCalls)

\* manager.start() done, the loop about to test game.is_running().
InitLoop ==
    /\ ContextInit
    /\ GameInit
    /\ WithIdle
    /\ FrameInit
    /\ PureIdle
    /\ TransformIdle
    /\ DrawIdle
    /\ PairIdle
    /\ ColorIdle
    /\ FlappyIdle
    /\ loopPc = "test"
    /\ calls = <<>>

LoopRest ==
    UNCHANGED <<ctxVars, gameVars, withVars, frameVars, pureVars,
                transformVars, drawVars, pairVars, colorVars, flappyVars>>

\* while game.is_running(): the window may have been asked to close.
LoopTest ==
    /\ loopPc = "test"
    /\ \E should_close \in BOOLEAN :
           loopPc' = IF is_running(Game, should_close) THEN "begin" ELSE "done"
    /\ UNCHANGED calls
    /\ LoopRest

LoopBeginFrame ==
    /\ loopPc = "begin"
    /\ Count(calls, {"poll_events"}) < MaxLoopFrames
    /\ calls' = calls \o begin_frame_calls
    /\ loopPc' = "logic"
    /\ LoopRest

\* manager.update(dt) makes no window or renderer call; manager.draw() makes
\* draw calls.
LoopDraw ==
    /\ loopPc = "logic"
    /\ DrawsInFrame < MaxLoopDraws
    /\ \E d \in DrawCalls : calls' = Append(calls, d)
    /\ UNCHANGED loopPc
    /\ LoopRest

LoopEndFrame ==
    /\ loopPc = "logic"
    /\ calls' = calls \o end_frame_calls
    /\ loopPc' = "test"
    /\ LoopRest

NextLoop ==
    \/ LoopTest
    \/ LoopBeginFrame
    \/ LoopDraw
    \/ LoopEndFrame

SpecLoop == InitLoop /\ [][NextLoop]_vars

\* C33: the native calls of the host loop come in the order poll_events,
\* clear, renderer_begin, draw calls, renderer_end, swap_buffers, frame after
\* frame: each call follows the one the order puts before it, so every draw
\* lies between its frame's renderer_begin and renderer_end, a frame is
\* presented only after its renderer_end, and a frame begins only after the
\* frame before was presented.
C33_FrameCallOrder ==
    \A i \in 1..Len(calls) :
        LET before == IF i = 1 THEN "none" ELSE calls[i - 1]
        IN /\ calls[i] = "poll_events" => before \in {"none", "swap_buffers"}
           /\ calls[i] = "clear" => before = "poll_events"
           /\ calls[i] = "renderer_begin" => before = "clear"
           /\ calls[i] \in DrawCalls =>
                  before \in DrawCalls \cup {"renderer_begin"}
           /\ calls[i] = "renderer_end" =>
                  before \in DrawCalls \cup {"renderer_begin"}
           /\ calls[i] = "swap_buffers" => before = "renderer_end"

\* Two frames presented, one of them with a draw_sprite and a draw_quad.
C33_Witness ==
    /\ loopPc = "test"
    /\ Count(calls, {"swap_buffers"}) = 2
    /\ Count(calls, {"draw_sprite"}) >= 1
    /\ Count(calls, {"draw_quad"}) >= 1

\* ---------------------------------------------------------------------------
\* A destroyed GoudContext and a context created after it
\* ---------------------------------------------------------------------------
\* Context A is created first. Context B is created only after A has been
\* destroyed, so the native library may give it the slot A had; its id then
\* differs from A's in the generation half, and an id is the whole 64 bits.

InitStale ==
    /\ ContextInit
    /\ GameIdle
    /\ WithIdle
    /\ FrameInit
    /\ PureIdle
    /\ MoreIdle

\* GoudContext.create() once no context is left.
CreateLater ==
    /\ ~World.valid
    /\ ~worldB.valid
    /\ worldB' = [slots |-> <<>>, free |-> <<>>, valid |-> TRUE]
    /\ destroyedB' = FALSE
    /\ issuedB' = {}
    /\ UNCHANGED <<ctxVars, gameVars, withVars, frameVars, pureVars,
                   transformVars, drawVars, lastVars>>

NextStale ==
    \/ PairSpawn
    \/ PairDespawn
    \/ PairDestroy
    \/ CreateLater

SpecStale == InitStale /\ [][NextStale]_vars

\* The contexts after a call on instance c left the context it reached as w:
\* the context c reached is the same as before and so is every other one.
Untouched(c, w) ==
    /\ w = Reached(Contexts, c)
    /\ Stored(Contexts, c, w) = Contexts

C35_LoadTextureCaches ==
    /\ \A path \in DOMAIN textures : textures[path] # AllOnes
    /\ game_context_valid =>
           /\ \A h \in texLoaded :
                  Cardinality({path \in DOMAIN textures : textures[path] = h}) = 1
           /\ \A path \in DOMAIN textures : \A okay \in BOOLEAN :
                  LET r == load_texture(Game, path, okay)
                  IN /\ r.handle = textures[path]
                     /\ ~r.raised
                     /\ r.g = Game
    /\ \A path \in PathInputs \ DOMAIN textures :
           LET r == load_texture(Game, path, FALSE)
           IN /\ r.raised
              /\ r.g.textures = textures

\* Two paths are cached, a third is not: loading a cached one again returns
\* its handle, loading the third fails when the native load fails.
C35_Witness ==
    /\ game_context_valid
    /\ Cardinality(DOMAIN textures) = 2
    /\ \E path \in DOMAIN textures :
           load_texture(Game, path, TRUE).handle = textures[path]
    /\ \E path \in PathInputs \ DOMAIN textures :
           load_texture(Game, path, FALSE).raised

\* ---------------------------------------------------------------------------
\* The three key answers of one frame
\* ---------------------------------------------------------------------------

\* C36: in every frame and for every key, just_pressed and just_released are
\* never both true, just_pressed implies pressed, just_released implies not
\* pressed, and up to the end of the first frame after creation
\* just_released is false.
C36_KeyAnswersConsistent ==
    \A c \in {k \in Channels : k.kind = "key"} :
        LET pressed       == key_pressed(Sampler, c.code).value
            just_pressed  == key_just_pressed(Sampler, c.code).value
            just_released == key_just_released(Sampler, c.code).value
        IN /\ ~(just_pressed /\ just_released)
           /\ just_pressed => pressed
           /\ just_released => ~pressed
           /\ Frames <= 1 => ~just_released

\* The first frame, begun with the space key held down: it is pressed and
\* just pressed and not just released.
C36_Witness ==
    /\ Frames = 1
    /\ rendering
    /\ key_pressed(Sampler, Keys_SPACE).value
    /\ key_just_pressed(Sampler, Keys_SPACE).value
    /\ ~key_just_released(Sampler, Keys_SPACE).value

\* ---------------------------------------------------------------------------
\* Flappy Bird: the jump cooldown (flappy_bird.py 148-188, 279-294)
\* ---------------------------------------------------------------------------
\* Time is counted in ticks of 0.05 s and velocity in steps of 0.2, so that
\* JUMP_COOLDOWN = 0.30 is 6 ticks, GRAVITY * TARGET_FPS = 1176 per second is
\* 294 steps per tick and JUMP_STRENGTH * TARGET_FPS = -420 is -2100 steps.
JUMP_COOLDOWN == 6
GravityPerTick == 294
JumpVelocity == -2100

MaxBirdUpdates == 4

\* Delta times a frame can have, in ticks.
BirdDts == {0, 2, 3, 7}

Movement == [velocity |-> velocity, timer |-> jump_cooldown_timer]

apply_gravity(m, dt) ==
    [velocity |-> m.velocity + GravityPerTick * dt,
     timer    |-> IF m.timer - dt > 0 THEN m.timer - dt ELSE 0]

\* try_jump without the test of the cooldown timer.
try_jump_unconditional(m) ==
    [velocity |-> JumpVelocity, timer |-> JUMP_COOLDOWN]

try_jump(m) ==
    IF m.timer <= 0
    THEN [velocity |-> JumpVelocity, timer |-> JUMP_COOLDOWN]
    ELSE m

\* Bird.update(delta_time, jump_pressed), the part that is Movement's;
\* update_position reads the velocity and writes the position and rotation.
Bird_update(m, dt, jump_pressed) ==
    apply_gravity(IF jump_pressed THEN try_jump(m) ELSE m, dt)

\* Bird.reset().
Bird_reset(m) == [m EXCEPT !.velocity = 0]

InitBird ==
    /\ ContextInit
    /\ GameIdle
    /\ WithIdle
    /\ FrameInit
    /\ PureIdle
    /\ MoreIdle

BirdRest ==
    UNCHANGED <<ctxVars, gameVars, withVars, frameVars, pureVars,
                transformVars, drawVars, pairVars, colorVars, loopVars>>

BirdUpdate ==
    /\ birdUpdates < MaxBirdUpdates
    /\ \E dt \in BirdDts, jump_pressed \in BOOLEAN :
           LET m      == Bird_update(Movement, dt, jump_pressed)
               jumped == jump_pressed /\ try_jump(Movement) # Movement
           IN /\ velocity' = m.velocity
              /\ jump_cooldown_timer' = m.timer
              /\ sinceJump' = IF jumped THEN dt
                              ELSE sinceJump + dt
              /\ jumps' = IF jumped THEN jumps + 1 ELSE jumps
    /\ birdUpdates' = birdUpdates + 1
    /\ UNCHANGED managerVars
    /\ BirdRest

BirdReset ==
    /\ velocity' = Bird_reset(Movement).velocity
    /\ jump_cooldown_timer' = Bird_reset(Movement).timer
    /\ UNCHANGED <<sinceJump, jumps, birdUpdates>>
    /\ UNCHANGED managerVars
    /\ BirdRest

NextBird ==
    \/ BirdUpdate
    \/ BirdReset

SpecBird == InitBird /\ [][NextBird]_vars

\* C37: the cooldown timer stays within 0..JUMP_COOLDOWN; try_jump changes
\* nothing while the timer is above 0 and sets the timer to JUMP_COOLDOWN when
\* it jumps; apply_gravity never raises the timer and reset leaves it; and a
\* jump after the first is made only when the delta times given to
\* apply_gravity since the jump before sum to at least JUMP_COOLDOWN.
C37_JumpCooldown ==
    /\ [](jump_cooldown_timer \in 0..JUMP_COOLDOWN)
    /\ [](jump_cooldown_timer > 0 => try_jump(Movement) = Movement)
    /\ [](jump_cooldown_timer = 0 =>
             try_jump(Movement).timer = JUMP_COOLDOWN)
    /\ [](\A dt \in BirdDts :
             apply_gravity(Movement, dt).timer <= jump_cooldown_timer)
    /\ [](Bird_reset(Movement).timer = jump_cooldown_timer)
    /\ [][jumps' > jumps => (jumps = 0 \/ sinceJump >= JUMP_COOLDOWN)]_vars

\* Two jumps were made, and the cooldown of the second is still running, so
\* that a try_jump now changes nothing.
C37_Witness ==
    /\ jumps = 2
    /\ jump_cooldown_timer > 0
    /\ sinceJump < JUMP_COOLDOWN
    /\ try_jump(Movement) = Movement

\* ---------------------------------------------------------------------------
\* Flappy Bird: pipes and score (flappy_bird.py 313-334, 353-370, 399-508)
\* ---------------------------------------------------------------------------
\* Lengths are pixels and time is the tick of 0.05 s used for the bird, so
\* PIPE_SPAWN_INTERVAL = 1.5 is 30 ticks and a pipe moves
\* PIPE_SPEED * TARGET_FPS = 120 pixels per second, 6 per tick.
SCREEN_WIDTH == 288
PIPE_WIDTH == 60
PIPE_IMG_WIDTH == 52
BIRD_WIDTH == 34
BirdX == 72
PIPE_SPAWN_INTERVAL == 30
PipeSpeedPerTick == 6

MaxGameUpdates == 4

\* Delta times of a frame, in ticks: short ones, one longer than the spawn
\* interval, and a stall long enough to carry two pipes off the screen.
GameDts == {20, 31, 70}

\* What the bird's position does to an update: nothing, out of bounds
\* (above the screen, below it, or on the base), or level with the top or
\* bottom piece of the pipes it meets.  The position follows from the
\* velocity and from each pipe's random gap, and is left open here.
BirdOutcomes == {"clear", "out", "level"}

GameManager ==
    [pipes |-> pipes, score |-> score, pipe_spawn_timer |-> pipe_spawn_timer,
     pipesMade |-> pipesMade, credits |-> credits]

\* Pipe.update(delta_time).
Pipe_update(p, dt) == [p EXCEPT !.x = p.x - PipeSpeedPerTick * dt]

\* Pipe.is_off_screen().
is_off_screen(p) == p.x + PIPE_WIDTH < 0

\* The collision test of the update's pipe loop: _check_collision of the
\* bird's bounds with a piece of the pipe, whose bounds start at the pipe's
\* x and are PIPE_IMG_WIDTH wide.  The heights are left open: the two boxes
\* share a row when level, and lie in different rows otherwise.
HitsPipe(p, level) ==
    check_collision([x |-> BirdX, y |-> 0, w |-> BIRD_WIDTH, h |-> 1],
                    [x |-> p.x, y |-> IF level THEN 0 ELSE 1,
                     w |-> PIPE_IMG_WIDTH, h |-> 1])

\* GameManager.start().
GameManager_start(gm) ==
    [gm EXCEPT !.pipes = <<>>, !.score = 0, !.pipe_spawn_timer = 0]

MovedPipes(ps, dt) == [i \in 1..Len(ps) |-> Pipe_update(ps[i], dt)]

OffScreen(ps) == {i \in 1..Len(ps) : is_off_screen(ps[i])}

\* A removal pass that takes nothing out of the list.
RemoveNothing(ps) == ps

\* The second loop of the removal pass: every pipe found off-screen is
\* removed from the list.
RemoveOffScreen(ps) == SelectSeq(ps, LAMBDA p : ~is_off_screen(p))

\* Whether update, given these inputs, ends in _reset_game().
Resets(gm, dt, escape, restart, bird) ==
    /\ ~escape
    /\ \/ restart
       \/ bird = "out"
       \/ \E i \in 1..Len(gm.pipes) :
              HitsPipe(Pipe_update(gm.pipes[i], dt), bird = "level")

\* GameManager.update(delta_time), the part that is the manager's own.
GameManager_update(gm, dt, escape, restart, bird) ==
    IF escape THEN gm
    ELSE IF Resets(gm, dt, escape, restart, bird) THEN GameManager_start(gm)
    ELSE
      LET moved   == MovedPipes(gm.pipes, dt)
          timer   == gm.pipe_spawn_timer + dt
          spawn   == timer > PIPE_SPAWN_INTERVAL
          all     == IF spawn
                     THEN Append(moved, [id |-> gm.pipesMade + 1,
                                         x  |-> SCREEN_WIDTH])
                     ELSE moved
          made    == IF spawn THEN Append(gm.credits, 0) ELSE gm.credits
          off     == {all[i].id : i \in OffScreen(all)}
      IN [pipes            |-> RemoveOffScreen(all),
          score            |-> gm.score + Cardinality(OffScreen(all)),
          pipe_spawn_timer |-> IF spawn THEN 0 ELSE timer,
          pipesMade        |-> Len(made),
          credits          |-> [id \in 1..Len(made) |->
                                   IF id \in off THEN made[id] + 1
                                   ELSE made[id]]]

InitGame == InitBird

\* One turn of the main loop's manager.update(dt), the bird's Movement
\* included; the loop ends once close() was called.
GameUpdate ==
    /\ gameUpdates < MaxGameUpdates
    /\ ~closeRequested
    /\ \E dt \in GameDts, escape \in BOOLEAN, restart \in BOOLEAN,
          jump_pressed \in BOOLEAN, bird \in BirdOutcomes :
           LET gm      == GameManager_update(GameManager, dt, escape,
                                             restart, bird)
               flown   == ~escape /\ ~restart
               jumped  == flown /\ jump_pressed
                             /\ try_jump(Movement) # Movement
               updated == IF flown
                          THEN Bird_update(Movement, dt, jump_pressed)
                          ELSE Movement
               m       == IF Resets(GameManager, dt, escape, restart, bird)
                          THEN Bird_reset(updated)
                          ELSE updated
           IN /\ pipes' = gm.pipes
              /\ score' = gm.score
              /\ pipe_spawn_timer' = gm.pipe_spawn_timer
              /\ pipesMade' = gm.pipesMade
              /\ credits' = gm.credits
              /\ closeRequested' = escape
              /\ velocity' = m.velocity
              /\ jump_cooldown_timer' = m.timer
              /\ sinceJump' = IF jumped THEN dt
                              ELSE IF flown THEN sinceJump + dt
                              ELSE sinceJump
              /\ jumps' = IF jumped THEN jumps + 1 ELSE jumps
              /\ birdUpdates' = IF flown THEN birdUpdates + 1
                                ELSE birdUpdates
    /\ gameUpdates' = gameUpdates + 1
    /\ BirdRest

NextGame == GameUpdate

SpecGame == InitGame /\ [][NextGame]_vars

PipeIds(ps) == {ps[i].id : i \in 1..Len(ps)}

\* C38: after every update no pipe of the list is off-screen; no pipe has
\* raised the score more than once and none that did is still in the list;
\* an update that does not end with score 0 and an empty list raises the
\* score by exactly the number of pipes that left the list in it; and every
\* update that resets (R pressed, the bird out of bounds, or a collision)
\* returns score 0 and an empty pipe list.
C38_PipeScoresOnce ==
    /\ [](\A i \in 1..Len(pipes) : ~is_off_screen(pipes[i]))
    /\ [](\A id \in 1..pipesMade : credits[id] <= 1)
    /\ [](\A id \in PipeIds(pipes) : credits[id] = 0)
    /\ [][(score' # 0 \/ pipes' # <<>>) =>
             /\ PipeIds(pipes) \ PipeIds(pipes') =
                    {id \in 1..pipesMade : credits'[id] > credits[id]}
             /\ score' = score
                    + Cardinality(PipeIds(pipes) \ PipeIds(pipes'))]_vars
    /\ [](\A dt \in GameDts, escape \in BOOLEAN, restart \in BOOLEAN,
             bird \in BirdOutcomes :
             Resets(GameManager, dt, escape, restart, bird) =>
               LET gm == GameManager_update(GameManager, dt, escape,
                                            restart, bird)
               IN gm.score = 0 /\ gm.pipes = <<>>)

\* Two pipes have left the screen and raised the score once each, a third
\* is on its way, and an update with R pressed would reset from here.
C38_Witness ==
    /\ score = 2
    /\ pipesMade >= 3
    /\ credits[1] = 1
    /\ credits[2] = 1
    /\ pipes # <<>>
    /\ Resets(GameManager, 20, FALSE, TRUE, "clear")

====
